---- MODULE Spec2Model ----
(***************************************************************************)
(* Consolidation / merge engine of the listening-history pipeline.         *)
(*                                                                         *)
(* Strings are sequences of one-character strings, so that toLowerCase,   *)
(* trim and the "|||" key separator are computed and not assumed.          *)
(* Display-only fields (images, genres, preview_url, external_urls) take   *)
(* no part in grouping or counting and are left out of the records.        *)
(***************************************************************************)
EXTENDS Integers, Sequences, FiniteSets, TLC

VARIABLES
    consolidator,     \* which consolidation function this run executes
    records,          \* the input array (songs / albums / artists)
    pos,              \* number of input records the for-loop has consumed
    consolidatedMap,  \* the Map, as its entries in insertion order
    returned,         \* TRUE once the function has returned
    output,           \* the returned array
    \* the rule pipelines (interactive clean-albums and the AI agent)
    ruleFile,         \* album-consolidation-rules.json: [exists, rules]
    albums,           \* data.albums of the top-albums file both pipelines read
    runs,             \* number of pipeline runs started so far
    pipeline,         \* "none", "interactive" or "agent": the run in progress
    phase,            \* "idle", "prompting", "analyzing", "done" or "failed"
    memRules,         \* consolidationRules.rules / this.existingRules.rules in memory
    loadedCount,      \* how many of memRules were loaded from the file
    potentialGroups,  \* potentialMatches / potentialGroups of the run
    cursor,           \* groups already answered (interactive) or collected (agent: i)
    threshold,        \* confidenceThreshold, in hundredths
    autoRules,        \* agent: result of findAutoConsolidations
    newRules,         \* agent: newRules
    decisions,        \* agent: decisions
    batch,            \* agent: the batch in flight, group index -> "pending" or result
    replies,          \* agent: what the oracle answered for each group (history)
    \* the listening history and its incremental merges
    source,           \* "none", or what produced existingData: "builder", "streaming", "cleaned"
    existingData,     \* the aggregate: [songs, metadata]
    merges,           \* number of mergeData calls made
    initialData,      \* the aggregate as it was before the first mergeData (history)
    mergedPlays,      \* the batches merged so far, in order (history)
    \* the page fetchers (fetchAllAlbums, fetchAllSongs)
    fetcher,          \* "none", "albums" or "songs": the script that runs
    made,             \* the answers of the requests made so far, in order (history)
    callIndex,        \* i of the for-loop
    allAlbums,        \* allAlbums / allSongs: the records collected
    errors,           \* errors
    stopped,          \* TRUE once the loop has been left
    fetchResults      \* the results object written to the file, <<>> before

foldVars == <<consolidator, records, pos, consolidatedMap, returned>>

ruleVars == <<ruleFile, albums, runs, pipeline, phase, memRules, loadedCount,
              potentialGroups, cursor, threshold, autoRules, newRules, decisions,
              batch, replies>>

histVars == <<source, existingData, merges, initialData, mergedPlays>>

fetchVars == <<fetcher, made, callIndex, allAlbums, errors, stopped, fetchResults>>

vars == <<foldVars, output, ruleVars, histVars, fetchVars>>

(***************************************************************************)
(* Bounds                                                                  *)
(***************************************************************************)
MaxRecords == 3

(***************************************************************************)
(* Strings                                                                 *)
(***************************************************************************)
LowerChar(c) ==
    CASE c = "A" -> "a"
      [] c = "X" -> "x"
      [] c = "Y" -> "y"
      [] c = "U" -> "u"
      [] OTHER -> c

ToLowerCase(s) == [i \in 1..Len(s) |-> LowerChar(s[i])]

RECURSIVE TrimStart(_)
TrimStart(s) ==
    IF s # <<>> /\ Head(s) = " " THEN TrimStart(Tail(s)) ELSE s

RECURSIVE TrimEnd(_)
TrimEnd(s) ==
    IF s # <<>> /\ s[Len(s)] = " " THEN TrimEnd(SubSeq(s, 1, Len(s) - 1)) ELSE s

Trim(s) == TrimEnd(TrimStart(s))

KeySep == <<"|", "|", "|">>

Pipe == <<"|">>

(***************************************************************************)
(* Sequence helpers                                                        *)
(***************************************************************************)
RECURSIVE SumSeq(_)
SumSeq(s) == IF s = <<>> THEN 0 ELSE Head(s) + SumSeq(Tail(s))

Range(s) == {s[i] : i \in 1..Len(s)}

\* Map.has / Map.get: position of the entry stored under key, 0 when absent
MapIndex(map, key) ==
    IF \E i \in 1..Len(map) : map[i].key = key
    THEN CHOOSE i \in 1..Len(map) : map[i].key = key
    ELSE 0

\* Array.prototype.sort((a, b) => b.count - a.count): stable, descending.
\* The elements of the highest count come first, in the order they had, then
\* those of the next count, and so on.
RECURSIVE BucketsByCount(_, _)
BucketsByCount(s, counts) ==
    IF counts = {} THEN <<>>
    ELSE LET top == CHOOSE c \in counts : \A d \in counts : d <= c
         IN  SelectSeq(s, LAMBDA e : e.count = top) \o BucketsByCount(s, counts \ {top})

SortByCountDesc(s) == BucketsByCount(s, {s[i].count : i \in 1..Len(s)})

TopN == 500

\* .sort(...).slice(0, 500).map((x, index) => ({...x, rank: index + 1}))
\* mutant: slice(0, 500) before sort
SliceSortRank(map) ==
    LET kept   == SubSeq(map, 1, IF Len(map) < TopN THEN Len(map) ELSE TopN)
        sorted == SortByCountDesc(kept)
    IN  [i \in 1..Len(sorted) |-> [sorted[i] EXCEPT !.rank = i]]

SortSliceRank(map) ==
    LET sorted == SortByCountDesc(map)
        kept   == SubSeq(sorted, 1, IF Len(sorted) < TopN THEN Len(sorted) ELSE TopN)
    IN  [i \in 1..Len(kept) |-> [kept[i] EXCEPT !.rank = i]]

(***************************************************************************)
(* clean-top-songs.ts: consolidateSongs                                    *)
(***************************************************************************)
SongKey(song) == ToLowerCase(song.artist \o KeySep \o song.name)

SongNew(key, song) ==
    [key |-> key, artist |-> song.artist, name |-> song.name,
     count |-> song.count, duration_ms |-> song.duration_ms,
     consolidated_count |-> 1,
     original_ids |-> <<song.id>>, original_counts |-> <<song.count>>,
     rank |-> 0]

\* mutant: the merge branch forgets "existing.duration_ms += song.duration_ms"
SongMergeKeepsDuration(existing, song) ==
    [existing EXCEPT !.count = @ + song.count,
                     !.consolidated_count = @ + 1,
                     !.original_ids = Append(@, song.id),
                     !.original_counts = Append(@, song.count)]

SongMerge(existing, song) ==
    [existing EXCEPT !.count = @ + song.count,
                     !.duration_ms = @ + song.duration_ms,
                     !.consolidated_count = @ + 1,
                     !.original_ids = Append(@, song.id),
                     !.original_counts = Append(@, song.count)]

SongFold(map, song) ==
    LET key == SongKey(song)
        at  == MapIndex(map, key)
    IN  IF at # 0 THEN [map EXCEPT ![at] = SongMerge(map[at], song)]
        ELSE Append(map, SongNew(key, song))

(***************************************************************************)
(* clean-top-albums.ts: consolidateAlbums (exact key, no original_counts)  *)
(***************************************************************************)
AlbumKey(album) == ToLowerCase(album.artist \o KeySep \o album.name)

AlbumNew(key, album) ==
    [key |-> key, artist |-> album.artist, name |-> album.name,
     count |-> album.count, duration_ms |-> album.duration_ms,
     consolidated_count |-> 1,
     original_ids |-> <<album.id>>,
     rank |-> 0]

AlbumMerge(existing, album) ==
    [existing EXCEPT !.count = @ + album.count,
                     !.duration_ms = @ + album.duration_ms,
                     !.consolidated_count = @ + 1,
                     !.original_ids = Append(@, album.id)]

AlbumFold(map, album) ==
    LET key == AlbumKey(album)
        at  == MapIndex(map, key)
    IN  IF at # 0 THEN [map EXCEPT ![at] = AlbumMerge(map[at], album)]
        ELSE Append(map, AlbumNew(key, album))

(***************************************************************************)
(* Rule-based consolidateAlbums with the built-in albumVariations table    *)
(***************************************************************************)
\* The table has the shape artistKey -> baseAlbum -> variations, e.g.
\* 'joyce manor': {'Joyce Manor': ['joyce manor', 's/t']}.  One entry of
\* that shape over the model's alphabet: 'a': {'X': ['x', 'y']}.
albumVariations ==
    << [artistKey |-> <<"a">>, baseAlbum |-> <<"X">>,
        variations |-> << <<"x">>, <<"y">> >>] >>

TableNormalizeAlbumName(artistName, albumName) ==
    LET artistKey == ToLowerCase(artistName)
        albumKey  == ToLowerCase(albumName)
        hits == {i \in 1..Len(albumVariations) :
                    /\ albumVariations[i].artistKey = artistKey
                    /\ albumKey \in Range(albumVariations[i].variations)}
    IN  IF hits # {}
        THEN albumVariations[CHOOSE i \in hits : \A j \in hits : i <= j].baseAlbum
        ELSE albumName

TableAlbumKey(album) ==
    ToLowerCase(album.artist \o KeySep
                \o TableNormalizeAlbumName(album.artist, album.name))

TableAlbumNew(key, album) ==
    [key |-> key, artist |-> album.artist,
     name |-> TableNormalizeAlbumName(album.artist, album.name),
     count |-> album.count, duration_ms |-> album.duration_ms,
     consolidated_count |-> 1,
     original_ids |-> <<album.id>>, original_counts |-> <<album.count>>,
     rank |-> 0]

TableAlbumMerge(existing, album) ==
    [existing EXCEPT !.count = @ + album.count,
                     !.duration_ms = @ + album.duration_ms,
                     !.consolidated_count = @ + 1,
                     !.original_ids = Append(@, album.id),
                     !.original_counts = Append(@, album.count)]

TableAlbumFold(map, album) ==
    LET key == TableAlbumKey(album)
        at  == MapIndex(map, key)
    IN  IF at # 0 THEN [map EXCEPT ![at] = TableAlbumMerge(map[at], album)]
        ELSE Append(map, TableAlbumNew(key, album))

(***************************************************************************)
(* clean-top-artists.ts: consolidateArtists                                *)
(***************************************************************************)
ArtistKey(artist) == ToLowerCase(artist.artist)

ArtistNew(key, artist) ==
    [key |-> key, artist |-> artist.artist, name |-> artist.artist,
     count |-> artist.count, duration_ms |-> artist.duration_ms,
     consolidated_count |-> 1,
     original_ids |-> <<artist.id>>, original_counts |-> <<artist.count>>,
     rank |-> 0]

\* mutant: the merge branch forgets "existing.original_counts.push(artist.count)"
ArtistMergeNoCountPush(existing, artist) ==
    [existing EXCEPT !.count = @ + artist.count,
                     !.duration_ms = @ + artist.duration_ms,
                     !.consolidated_count = @ + 1,
                     !.original_ids = Append(@, artist.id)]

ArtistMerge(existing, artist) ==
    [existing EXCEPT !.count = @ + artist.count,
                     !.duration_ms = @ + artist.duration_ms,
                     !.consolidated_count = @ + 1,
                     !.original_ids = Append(@, artist.id),
                     !.original_counts = Append(@, artist.count)]

ArtistFold(map, artist) ==
    LET key == ArtistKey(artist)
        at  == MapIndex(map, key)
    IN  IF at # 0 THEN [map EXCEPT ![at] = ArtistMerge(map[at], artist)]
        ELSE Append(map, ArtistNew(key, artist))

(***************************************************************************)
(* CleanedFilesGenerator.consolidateSongs (history-derived)                *)
(***************************************************************************)
HistorySongKey(song) ==
    Trim(ToLowerCase(song.name)) \o Pipe \o Trim(ToLowerCase(song.artist))

\* generateCleanedSongs hands over consolidated_count = playCount and
\* original_songIds = [songId]; the new-entry branch resets consolidated_count
\* to song.count
HistorySongNew(key, song) ==
    [key |-> key, artist |-> song.artist, name |-> song.name,
     count |-> song.count, duration_ms |-> song.duration_ms,
     consolidated_count |-> song.count,
     original_ids |-> <<song.id>>,
     rank |-> 0]

HistorySongMerge(existing, song) ==
    [existing EXCEPT !.count = @ + song.count,
                     !.consolidated_count = @ + song.count,
                     !.duration_ms = @ + song.duration_ms,
                     !.original_ids = Append(@, song.id)]

HistorySongFold(map, song) ==
    LET key == HistorySongKey(song)
        at  == MapIndex(map, key)
    IN  IF at # 0 THEN [map EXCEPT ![at] = HistorySongMerge(map[at], song)]
        ELSE Append(map, HistorySongNew(key, song))

(***************************************************************************)
(* Inputs                                                                  *)
(***************************************************************************)
Consolidators == {"songs", "albums", "tableAlbums", "artists", "historySongs"}

\* (artist.name, name) pairs: case variants, a trailing blank, and names that
\* contain the separator character
NamePairs ==
    { <<a, n>> : a \in { <<"a">> },
                 n \in { <<"x">>, <<"X">>, <<"x", " ">>, <<"|", "x">>, <<"y">> } }
    \cup
    { <<a, n>> : a \in { <<"A">>, <<"a", "|">> }, n \in { <<"x">> } }

\* (count, duration_ms)
Magnitudes == { <<1, 5>>, <<2, 3>> }

\* the record read at array position id
InputRecord(id, pair, mag) ==
    [id |-> id, artist |-> pair[1], name |-> pair[2],
     count |-> mag[1], duration_ms |-> mag[2]]

(***************************************************************************)
(* The consolidation run: the input array is any array of at most          *)
(* MaxRecords records; the for-loop takes one record per step; then the    *)
(* sort / slice / rank builds the returned array                           *)
(***************************************************************************)
RECURSIVE InputArrays(_)
InputArrays(n) ==
    IF n = 0 THEN { <<>> }
    ELSE LET shorter == InputArrays(n - 1)
         IN  shorter \cup
             { Append(s, InputRecord(Len(s) + 1, pair, mag)) :
                 s \in {t \in shorter : Len(t) = n - 1},
                 pair \in NamePairs, mag \in Magnitudes }

NoRuleFile == [exists |-> FALSE, rules |-> <<>>]

\* no pipeline run is in progress and none has run
NoData == [songs |-> <<>>, metadata |-> <<>>]

\* no history has been built and nothing has been merged
HistoryIdle ==
    /\ source = "none"
    /\ existingData = NoData
    /\ merges = 0
    /\ initialData = NoData
    /\ mergedPlays = <<>>

\* no fetch script runs
FetchIdle ==
    /\ fetcher = "none"
    /\ made = <<>>
    /\ callIndex = 0
    /\ allAlbums = <<>>
    /\ errors = <<>>
    /\ stopped = FALSE
    /\ fetchResults = <<>>

RulesIdle ==
    /\ ruleFile = NoRuleFile
    /\ albums = <<>>
    /\ runs = 0
    /\ pipeline = "none"
    /\ phase = "idle"
    /\ memRules = <<>>
    /\ loadedCount = 0
    /\ potentialGroups = <<>>
    /\ cursor = 0
    /\ threshold = 0
    /\ autoRules = <<>>
    /\ newRules = <<>>
    /\ decisions = <<>>
    /\ batch = <<>>
    /\ replies = <<>>

InitFold ==
    /\ RulesIdle
    /\ HistoryIdle
    /\ FetchIdle
    /\ consolidator \in Consolidators
    /\ records \in InputArrays(MaxRecords)
    /\ pos = 0
    /\ consolidatedMap = <<>>
    /\ returned = FALSE
    /\ output = <<>>

consolidateSongs ==
    /\ consolidator = "songs"
    /\ ~returned
    /\ pos < Len(records)
    /\ consolidatedMap' = SongFold(consolidatedMap, records[pos + 1])
    /\ pos' = pos + 1
    /\ UNCHANGED <<consolidator, records, returned, output, ruleVars, histVars, fetchVars>>

consolidateAlbums ==
    /\ consolidator = "albums"
    /\ ~returned
    /\ pos < Len(records)
    /\ consolidatedMap' = AlbumFold(consolidatedMap, records[pos + 1])
    /\ pos' = pos + 1
    /\ UNCHANGED <<consolidator, records, returned, output, ruleVars, histVars, fetchVars>>

tableConsolidateAlbums ==
    /\ consolidator = "tableAlbums"
    /\ ~returned
    /\ pos < Len(records)
    /\ consolidatedMap' = TableAlbumFold(consolidatedMap, records[pos + 1])
    /\ pos' = pos + 1
    /\ UNCHANGED <<consolidator, records, returned, output, ruleVars, histVars, fetchVars>>

consolidateArtists ==
    /\ consolidator = "artists"
    /\ ~returned
    /\ pos < Len(records)
    /\ consolidatedMap' = ArtistFold(consolidatedMap, records[pos + 1])
    /\ pos' = pos + 1
    /\ UNCHANGED <<consolidator, records, returned, output, ruleVars, histVars, fetchVars>>

historyConsolidateSongs ==
    /\ consolidator = "historySongs"
    /\ ~returned
    /\ pos < Len(records)
    /\ consolidatedMap' = HistorySongFold(consolidatedMap, records[pos + 1])
    /\ pos' = pos + 1
    /\ UNCHANGED <<consolidator, records, returned, output, ruleVars, histVars, fetchVars>>

\* end of the loop: the returned array
ReturnRanked ==
    /\ ~returned
    /\ consolidator \in {"songs", "albums", "tableAlbums", "artists"}
    /\ pos = Len(records)
    /\ output' = SortSliceRank(consolidatedMap)
    /\ returned' = TRUE
    /\ UNCHANGED <<consolidator, records, pos, consolidatedMap, ruleVars, histVars, fetchVars>>

\* CleanedFilesGenerator.consolidateSongs returns the sorted array unsliced
ReturnSorted ==
    /\ ~returned
    /\ consolidator = "historySongs"
    /\ pos = Len(records)
    /\ output' = SortByCountDesc(consolidatedMap)
    /\ returned' = TRUE
    /\ UNCHANGED <<consolidator, records, pos, consolidatedMap, ruleVars, histVars, fetchVars>>

NextFold ==
    \/ consolidateSongs
    \/ consolidateAlbums
    \/ tableConsolidateAlbums
    \/ consolidateArtists
    \/ historyConsolidateSongs
    \/ ReturnRanked
    \/ ReturnSorted

SpecFold == InitFold /\ [][NextFold]_vars

(***************************************************************************)
(* Properties of the fold                                                  *)
(***************************************************************************)
Counts(seq) == [i \in 1..Len(seq) |-> seq[i].count]

Durations(seq) == [i \in 1..Len(seq) |-> seq[i].duration_ms]

Consumed == SubSeq(records, 1, pos)

\* positions of the Map entries that hold input record id
HoldersOf(id) ==
    {i \in 1..Len(consolidatedMap) : id \in Range(consolidatedMap[i].original_ids)}

SameEntity(i, j) == HoldersOf(i) \cap HoldersOf(j) # {}

\* C1: the fold conserves plays and listening time.  At every point of the
\* loop (so also at its end, before the top-500 slice) the counts of the
\* merged entities sum to the counts of the records consumed so far, the
\* same holds for duration_ms, and every consumed record is held by exactly
\* one entity, exactly once.
C1_PlaysConserved ==
    /\ SumSeq(Counts(consolidatedMap)) = SumSeq(Counts(Consumed))
    /\ SumSeq(Durations(consolidatedMap)) = SumSeq(Durations(Consumed))
    /\ \A id \in 1..pos :
          /\ Cardinality(HoldersOf(id)) = 1
          /\ \A i \in HoldersOf(id) :
                Cardinality({k \in 1..Len(consolidatedMap[i].original_ids) :
                               consolidatedMap[i].original_ids[k] = id}) = 1

C1_Witness ==
    /\ pos = Len(records)
    /\ pos >= 3
    /\ \E i \in 1..Len(consolidatedMap) :
          /\ consolidatedMap[i].consolidated_count >= 2
          /\ consolidatedMap[i].duration_ms > consolidatedMap[i].count

WithOriginalCounts == {"songs", "artists", "tableAlbums"}

\* C2: in consolidateSongs, consolidateArtists and the rule-based
\* consolidateAlbums, after every step of the loop each entity of the Map has
\* count = sum(original_counts) and consolidated_count = len(original ids)
\* = len(original_counts) >= 1.
C2_MemberBookkeeping ==
    consolidator \in WithOriginalCounts =>
        \A i \in 1..Len(consolidatedMap) :
            LET e == consolidatedMap[i]
            IN  /\ e.count = SumSeq(e.original_counts)
                /\ e.consolidated_count = Len(e.original_ids)
                /\ e.consolidated_count = Len(e.original_counts)
                /\ e.consolidated_count >= 1

C2_Witness ==
    /\ consolidator = "artists"
    /\ 0 < pos /\ pos < Len(records)
    /\ \E i \in 1..Len(consolidatedMap) :
          Len(consolidatedMap[i].original_counts) = 2

\* the folded-in record with the highest individual count, first-seen on ties
MostPlayedId(ids) ==
    CHOOSE id \in Range(ids) :
        \A other \in Range(ids) :
            \/ records[other].count < records[id].count
            \/ records[other].count = records[id].count /\ id <= other

DisplayName(rec) == IF consolidator = "artists" THEN rec.artist ELSE rec.name

\* C3 (as claimed): every entity of the array that consolidateSongs and the
\* exact-key consolidateAlbums return carries the display name of its
\* most-played folded-in record (first-seen on ties), whatever the input order.
C3_NameOfMostPlayed ==
    (returned /\ consolidator \in {"songs", "albums"}) =>
        \A i \in 1..Len(output) :
            output[i].name = DisplayName(records[MostPlayedId(output[i].original_ids)])

\* C4 (as claimed): records whose artist names differ after case-folding are
\* never folded into the same entity.
C4_NeverAcrossArtists ==
    \A i \in 1..Len(consolidatedMap) :
        \A a, b \in Range(consolidatedMap[i].original_ids) :
            ToLowerCase(records[a].artist) = ToLowerCase(records[b].artist)

NoTableRule(rec) == TableNormalizeAlbumName(rec.artist, rec.name) = rec.name

\* the table entries of the record's artist that hold the record's
\* lower-cased, trimmed name among their variations
TrimmedTableHits(rec) ==
    {k \in 1..Len(albumVariations) :
        /\ albumVariations[k].artistKey = ToLowerCase(rec.artist)
        /\ Trim(ToLowerCase(rec.name)) \in Range(albumVariations[k].variations)}

\* C5 (as claimed): with no rule involved, two records of one artist are
\* folded together exactly when their names agree after lower-casing and
\* trimming; and a record whose lower-cased, trimmed name is a variant of a
\* rule is folded under that rule's base name.
C5_FoldedIffLowerTrimEqual ==
    /\ consolidator \in {"songs", "albums", "historySongs"} =>
          \A i, j \in 1..pos :
              ToLowerCase(records[i].artist) = ToLowerCase(records[j].artist) =>
                  (SameEntity(i, j) <=>
                      Trim(ToLowerCase(records[i].name)) = Trim(ToLowerCase(records[j].name)))
    /\ consolidator = "tableAlbums" =>
          \A i \in 1..pos :
              \A k \in TrimmedTableHits(records[i]) :
                  \A h \in HoldersOf(i) :
                      consolidatedMap[h].key =
                          ToLowerCase(records[i].artist \o KeySep \o albumVariations[k].baseAlbum)

(***************************************************************************)
(* Rule pipelines: shared helpers                                          *)
(***************************************************************************)
MaxRuns == 2

\* number of leading whitespace characters (the greedy \s* of the patterns)
RECURSIVE LeadingBlanks(_)
LeadingBlanks(s) ==
    IF s # <<>> /\ Head(s) = " " THEN 1 + LeadingBlanks(Tail(s)) ELSE 0

\* s.replace(/\s*\([^)]*\)/g, '') and s.replace(/\s*\[[^\]]*\]/g, ''):
\* every leftmost match "blanks, open, anything but close, close" is removed
RECURSIVE RemoveEnclosed(_, _, _)
RemoveEnclosed(s, open, close) ==
    IF s = <<>> THEN <<>>
    ELSE LET ws == LeadingBlanks(s)
             closers == {j \in (ws + 2)..Len(s) : s[j] = close}
         IN  IF ws < Len(s) /\ s[ws + 1] = open /\ closers # {}
             THEN LET j == CHOOSE c \in closers : \A d \in closers : c <= d
                  IN  RemoveEnclosed(SubSeq(s, j + 1, Len(s)), open, close)
             ELSE <<Head(s)>> \o RemoveEnclosed(Tail(s), open, close)

\* the qualifier vocabulary (remastered|deluxe|explicit|super deluxe|
\* anniversary|edition|version|re-mastered|re-mastret); a qualifier word is
\* one element of the string
Qualifiers == {"remastered", "deluxe", "edition"}

\* s.replace(/\s*(remastered|deluxe|...).*$/i, ''): the leftmost qualifier,
\* the blanks right before it and everything after it are cut
StripQualifier(s) ==
    LET at == {i \in 1..Len(s) : s[i] \in Qualifiers}
    IN  IF at = {} THEN s
        ELSE LET q == CHOOSE i \in at : \A j \in at : i <= j
                 blanksBefore ==
                     {k \in 0..(q - 1) : \A m \in (q - k)..(q - 1) : s[m] = " "}
                 k == CHOOSE b \in blanksBefore : \A c \in blanksBefore : c <= b
             IN  SubSeq(s, 1, q - k - 1)

\* the heuristic base name used to find merge candidates
BaseName(albumName) ==
    Trim(StripQualifier(
            RemoveEnclosed(RemoveEnclosed(ToLowerCase(albumName), "(", ")"), "[", "]")))

\* first occurrences, in order (the key order of a Map filled in array order)
DistinctInOrder(s) ==
    LET firsts == SelectSeq([i \in 1..Len(s) |-> i],
                            LAMBDA i : \A j \in 1..(i - 1) : s[j] # s[i])
    IN  [k \in 1..Len(firsts) |-> s[firsts[k]]]

RECURSIVE Flatten(_)
Flatten(ss) == IF ss = <<>> THEN <<>> ELSE Head(ss) \o Flatten(Tail(ss))

LowerNames(group) == [i \in 1..Len(group) |-> ToLowerCase(group[i].name)]

\* groupAlbumsByArtist: artist.name.toLowerCase() -> albums, in Map order
groupAlbumsByArtist(list) ==
    LET keys == DistinctInOrder([i \in 1..Len(list) |-> ToLowerCase(list[i].artist)])
    IN  [k \in 1..Len(keys) |->
            [artistKey |-> keys[k],
             albums |-> SelectSeq(list, LAMBDA al : ToLowerCase(al.artist) = keys[k])]]

\* albumGroups of one artist, keyed by base name
BaseNameGroups(artistAlbums) ==
    LET keys == DistinctInOrder([i \in 1..Len(artistAlbums) |-> BaseName(artistAlbums[i].name)])
    IN  [k \in 1..Len(keys) |->
            SelectSeq(artistAlbums, LAMBDA al : BaseName(al.name) = keys[k])]

\* albumGroups of one artist, keyed by lower-cased name
IdenticalNameGroups(artistAlbums) ==
    LET keys == DistinctInOrder(LowerNames(artistAlbums))
    IN  [k \in 1..Len(keys) |->
            SelectSeq(artistAlbums, LAMBDA al : ToLowerCase(al.name) = keys[k])]

\* every base-name group with more than one album, of every artist with more
\* than one album, in iteration order; artist is artistAlbums[0].artist.name
CandidateGroups(list) ==
    LET byArtist == groupAlbumsByArtist(list)
    IN  Flatten([a \in 1..Len(byArtist) |->
            IF Len(byArtist[a].albums) > 1
            THEN LET big == SelectSeq(BaseNameGroups(byArtist[a].albums),
                                      LAMBDA g : Len(g) > 1)
                 IN  [g \in 1..Len(big) |->
                        [artistKey |-> byArtist[a].artistKey,
                         artist |-> byArtist[a].albums[1].artist,
                         albums |-> big[g]]]
            ELSE <<>>])

\* albumNames.every(name => name === albumNames[0]) on lower-cased names
AllIdentical(group) == \A i \in 1..Len(group) : ToLowerCase(group[i].name) = ToLowerCase(group[1].name)

\* the rule built from a group: most played name first after the in-place
\* sort, variations in the sorted order
GroupRule(artist, group) ==
    LET sortedAlbums == SortByCountDesc(group)
    IN  [artistName |-> artist,
         baseAlbumName |-> sortedAlbums[1].name,
         variations |-> LowerNames(sortedAlbums)]

\* findIdenticalAlbums / findAutoConsolidations: one rule per group of albums
\* of one artist whose lower-cased names are identical
IdenticalRules(list) ==
    LET byArtist == groupAlbumsByArtist(list)
    IN  Flatten([a \in 1..Len(byArtist) |->
            IF Len(byArtist[a].albums) > 1
            THEN LET big == SelectSeq(IdenticalNameGroups(byArtist[a].albums),
                                      LAMBDA g : Len(g) > 1)
                 IN  [g \in 1..Len(big) |-> GroupRule(byArtist[a].albums[1].artist, big[g])]
            ELSE <<>>])

\* rule covers the group: same artist, one of the group's names among its variations
RuleCovers(rule, artistKey, group) ==
    /\ ToLowerCase(rule.artistName) = artistKey
    /\ \E v \in Range(rule.variations) : v \in Range(LowerNames(group))

(***************************************************************************)
(* Interactive pipeline: consolidateAlbums with the rule file              *)
(***************************************************************************)
\* loadConsolidationRules / loadExistingRules
LoadRules(file) == IF file.exists THEN file.rules ELSE <<>>

\* findPotentialMatches: the loop over the candidate groups; rules grows by
\* the auto rules, matches collects the groups to ask about
RECURSIVE ScanGroups(_, _, _)
ScanGroups(groups, rules, matches) ==
    IF groups = <<>> THEN [rules |-> rules, matches |-> matches]
    ELSE LET g == Head(groups)
         IN  IF \E r \in Range(rules) : RuleCovers(r, g.artistKey, g.albums)
             THEN ScanGroups(Tail(groups), rules, matches)
             ELSE IF AllIdentical(g.albums)
                  THEN ScanGroups(Tail(groups),
                                  Append(rules, GroupRule(g.artist, g.albums)), matches)
                  ELSE ScanGroups(Tail(groups), rules,
                                  Append(matches, [artist |-> g.artist, albums |-> g.albums]))

findPotentialMatches(list, rules) == ScanGroups(CandidateGroups(list), rules, <<>>)

\* saveConsolidationRules
WrittenFile(rules) == [exists |-> TRUE, rules |-> rules]

\* "if (potentialMatches.length > 0) saveConsolidationRules(...)"
InteractiveSave(file, matches, rules) ==
    IF Len(matches) > 0 THEN WrittenFile(rules) ELSE file

\* normalizeAlbumName: rulesMap holds the loaded rules under
\* artist|||baseAlbumName (a later rule replaces an earlier one of the same
\* key); the loop runs over all rules in memory
RuleNormalizeAlbumName(rules, loaded, artistName, albumName) ==
    LET artistKey == ToLowerCase(artistName)
        albumKey  == ToLowerCase(albumName)
        ruleKey   == artistKey \o KeySep \o albumKey
        inMap == {i \in 1..loaded :
                    ToLowerCase(rules[i].artistName) \o KeySep
                        \o ToLowerCase(rules[i].baseAlbumName) = ruleKey}
        byVariation == {i \in 1..Len(rules) :
                          /\ ToLowerCase(rules[i].artistName) = artistKey
                          /\ albumKey \in Range(rules[i].variations)}
    IN  IF inMap # {}
        THEN rules[CHOOSE i \in inMap : \A j \in inMap : j <= i].baseAlbumName
        ELSE IF byVariation # {}
             THEN rules[CHOOSE i \in byVariation : \A j \in byVariation : i <= j].baseAlbumName
             ELSE albumName

RuleAlbumNew(key, normalizedAlbumName, album) ==
    [key |-> key, artist |-> album.artist, name |-> normalizedAlbumName,
     count |-> album.count, duration_ms |-> album.duration_ms,
     consolidated_count |-> 1,
     original_ids |-> <<album.id>>, original_counts |-> <<album.count>>,
     rank |-> 0]

RuleAlbumMerge(existing, album) ==
    [existing EXCEPT !.count = @ + album.count,
                     !.duration_ms = @ + album.duration_ms,
                     !.consolidated_count = @ + 1,
                     !.original_ids = Append(@, album.id),
                     !.original_counts = Append(@, album.count)]

RECURSIVE RuleAlbumFold(_, _, _, _)
RuleAlbumFold(map, list, rules, loaded) ==
    IF list = <<>> THEN map
    ELSE LET album == Head(list)
             normalizedAlbumName ==
                 RuleNormalizeAlbumName(rules, loaded, album.artist, album.name)
             key == ToLowerCase(album.artist \o KeySep \o normalizedAlbumName)
             at  == MapIndex(map, key)
         IN  RuleAlbumFold(
                 IF at # 0 THEN [map EXCEPT ![at] = RuleAlbumMerge(map[at], album)]
                 ELSE Append(map, RuleAlbumNew(key, normalizedAlbumName, album)),
                 Tail(list), rules, loaded)

\* top-albums file contents
AlbumX  == [artist |-> <<"a">>, name |-> <<"x">>, count |-> 2, duration_ms |-> 4]
AlbumUx == [artist |-> <<"a">>, name |-> <<"X">>, count |-> 3, duration_ms |-> 6]
AlbumXr == [artist |-> <<"a">>, name |-> <<"x", " ", "(", "r", ")">>, count |-> 5, duration_ms |-> 9]
AlbumYr == [artist |-> <<"y">>, name |-> <<"y", " ", "remastered">>, count |-> 1, duration_ms |-> 2]
AlbumYd == [artist |-> <<"Y">>, name |-> <<"Y", " ", "[", "d", "]">>, count |-> 4, duration_ms |-> 7]

AlbumSets == { {AlbumX, AlbumUx}, {AlbumX, AlbumXr}, {AlbumX, AlbumUx, AlbumXr},
               {AlbumX, AlbumYr} }

WithId(al, id) ==
    [id |-> id, artist |-> al.artist, name |-> al.name,
     count |-> al.count, duration_ms |-> al.duration_ms]

\* every order of the albums of a set; albumId = position in the file
RECURSIVE AlbumArrays(_)
AlbumArrays(set) ==
    IF set = {} THEN { <<>> }
    ELSE UNION { { Append(s, WithId(al, Cardinality(set))) : s \in AlbumArrays(set \ {al}) }
                 : al \in set }

\* two artists with one ambiguous group each
TwoGroups ==
    { <<WithId(AlbumX, 1), WithId(AlbumXr, 2), WithId(AlbumYr, 3), WithId(AlbumYd, 4)>>,
      <<WithId(AlbumYd, 1), WithId(AlbumXr, 2), WithId(AlbumYr, 3), WithId(AlbumX, 4)>> }

AlbumInputs == UNION { AlbumArrays(set) : set \in AlbumSets } \cup TwoGroups

\* the state every run starts from: nothing of a previous process survives
\* but the rule file
RunStarts == phase \in {"idle", "done", "failed"} /\ runs < MaxRuns

\* lines 1091-1148: save if anything was asked, fold with the rules, sort,
\* slice, rank
InteractiveFinish(rules, loaded, matches) ==
    /\ ruleFile' = InteractiveSave(ruleFile, matches, rules)
    /\ memRules' = rules
    /\ output' = SortSliceRank(RuleAlbumFold(<<>>, albums, rules, loaded))
    /\ phase' = "done"

\* answer.toLowerCase().startsWith('y')
Answers == { <<"y">>, <<"Y", "e", "s">>, <<"n">>, <<>> }

SaysYes(answer) == answer # <<>> /\ Head(ToLowerCase(answer)) = "y"

\* consolidateAlbums of the interactive script, up to its first prompt (or to
\* its end when there is nothing to ask)
interactiveConsolidateAlbums ==
    /\ RunStarts
    /\ LET loaded == LoadRules(ruleFile)
           scan   == findPotentialMatches(albums, loaded)
           rules  == scan.rules \o IdenticalRules(albums)
       IN  /\ runs' = runs + 1
           /\ pipeline' = "interactive"
           /\ loadedCount' = Len(loaded)
           /\ potentialGroups' = scan.matches
           /\ cursor' = 0
           /\ threshold' = 0
           /\ autoRules' = <<>>
           /\ newRules' = <<>>
           /\ decisions' = <<>>
           /\ batch' = <<>>
           /\ replies' = <<>>
           /\ IF scan.matches = <<>>
              THEN InteractiveFinish(rules, Len(loaded), scan.matches)
              ELSE /\ memRules' = rules
                   /\ phase' = "prompting"
                   /\ UNCHANGED <<ruleFile, output>>
    /\ UNCHANGED <<foldVars, histVars, fetchVars, albums>>

\* one iteration of the prompt loop: the operator answers for the next match;
\* after the last answer the function runs to its end
askUserConsolidation ==
    /\ pipeline = "interactive"
    /\ phase = "prompting"
    /\ \E answer \in Answers :
         LET match == potentialGroups[cursor + 1]
             rules == IF SaysYes(answer)
                      THEN Append(memRules, GroupRule(match.artist, match.albums))
                      ELSE memRules
         IN  /\ cursor' = cursor + 1
             /\ IF cursor + 1 = Len(potentialGroups)
                THEN InteractiveFinish(rules, loadedCount, potentialGroups)
                ELSE /\ memRules' = rules
                     /\ UNCHANGED <<ruleFile, output, phase>>
    /\ UNCHANGED <<foldVars, histVars, fetchVars, albums, runs, pipeline, loadedCount, potentialGroups,
                   threshold, autoRules, newRules, decisions, batch, replies>>

(***************************************************************************)
(* AI pipeline: AlbumConsolidationAgent                                    *)
(***************************************************************************)
batchSize == 5

\* findPotentialConsolidations: the candidate groups whose lower-cased names
\* are not all identical; the loaded rules are not looked at
findPotentialConsolidations(list) ==
    LET groups == SelectSeq(CandidateGroups(list), LAMBDA g : ~AllIdentical(g.albums))
    IN  [g \in 1..Len(groups) |-> groups[g].albums]

\* The oracle's answer: a transport error, or a response text.  The text is
\* a sequence of tokens: prose, "{", "}", and the member list of an object.
\* Every JSON value carries its typeof.
Tok(t) == [t |-> t, v |-> <<>>]

JBool(b) == [t |-> "boolean", v |-> b]
JNum(n)  == [t |-> "number", v |-> n]
JStr(s)  == [t |-> "string", v |-> s]
JUndef   == [t |-> "undefined", v |-> <<>>]

Members(should, conf, name, why) ==
    [t |-> "members",
     v |-> [shouldConsolidate |-> should, confidence |-> conf,
            canonicalName |-> name, reasoning |-> why]]

TransportError == [kind |-> "error", text |-> <<>>]
Response(text) == [kind |-> "response", text |-> text]

Object(members) == <<Tok("{"), members, Tok("}")>>

\* response.match(/\{[\s\S]*\}/): from the first "{" to the last "}"
JsonMatch(text) ==
    LET opens  == {i \in 1..Len(text) : text[i].t = "{"}
        closes == {i \in 1..Len(text) : text[i].t = "}"}
    IN  IF opens = {} \/ closes = {} THEN <<>>
        ELSE LET first == CHOOSE i \in opens : \A j \in opens : i <= j
                 last  == CHOOSE i \in closes : \A j \in closes : j <= i
             IN  IF first < last THEN SubSeq(text, first, last) ELSE <<>>

\* JSON.parse accepts "{" members "}" and "{" "}"
JsonParses(m) ==
    \/ Len(m) = 3 /\ m[1].t = "{" /\ m[2].t = "members" /\ m[3].t = "}"
    \/ Len(m) = 2 /\ m[1].t = "{" /\ m[2].t = "}"

JsonParse(m) ==
    IF Len(m) = 3 THEN m[2].v
    ELSE [shouldConsolidate |-> JUndef, confidence |-> JUndef,
          canonicalName |-> JUndef, reasoning |-> JUndef]

ValidFormat(obj) ==
    /\ obj.shouldConsolidate.t = "boolean"
    /\ obj.confidence.t = "number"
    /\ obj.canonicalName.t = "string"
    /\ obj.reasoning.t = "string"

ErrorReasoning == <<"Error in AI analysis">>

FallbackDecision(group) ==
    [shouldConsolidate |-> FALSE, confidence |-> 0,
     canonicalName |-> group[1].name, reasoning |-> ErrorReasoning]

\* the try block of analyzeAlbumGroup: threw tells whether it was left by an
\* exception
TryAnalyze(group, reply) ==
    LET thrown == [threw |-> TRUE, decision |-> FallbackDecision(group)]
    IN  IF reply.kind = "error" THEN thrown
        ELSE LET m == JsonMatch(reply.text)
             IN  IF m = <<>> THEN thrown
                 ELSE IF ~JsonParses(m) THEN thrown
                 ELSE LET obj == JsonParse(m)
                      IN  IF ~ValidFormat(obj) THEN thrown
                          ELSE [threw |-> FALSE,
                                decision |->
                                  [shouldConsolidate |-> obj.shouldConsolidate.v,
                                   confidence |-> obj.confidence.v,
                                   canonicalName |-> obj.canonicalName.v,
                                   reasoning |-> obj.reasoning.v]]

\* mutant: no catch, the exception leaves analyzeAlbumGroup
analyzeAlbumGroupRethrows(group, reply) == TryAnalyze(group, reply)

\* analyzeAlbumGroup: the catch turns every exception into the fallback
analyzeAlbumGroup(group, reply) ==
    LET tried == TryAnalyze(group, reply)
    IN  IF tried.threw
        THEN [threw |-> FALSE, decision |-> FallbackDecision(group)]
        ELSE tried

\* mutant: confidence must exceed the threshold
CreatesRuleAboveThreshold(decision, confidenceThreshold) ==
    decision.shouldConsolidate /\ decision.confidence > confidenceThreshold

\* "if (decision.shouldConsolidate && decision.confidence >= confidenceThreshold)"
CreatesRule(decision, confidenceThreshold) ==
    decision.shouldConsolidate /\ decision.confidence >= confidenceThreshold

Pending == [state |-> "pending", decision |-> <<>>, newRule |-> <<>>]

\* one promise of batchPromises, settled
BatchResult(group, reply, confidenceThreshold) ==
    LET outcome == analyzeAlbumGroup(group, reply)
    IN  IF outcome.threw
        THEN [state |-> "null", decision |-> <<>>, newRule |-> <<>>]
        ELSE [state |-> "result",
              decision |-> <<outcome.decision>>,
              newRule |->
                IF CreatesRule(outcome.decision, confidenceThreshold)
                THEN << [artistName |-> group[1].artist,
                         baseAlbumName |-> outcome.decision.canonicalName,
                         variations |-> LowerNames(group)] >>
                ELSE <<>>]

\* batchResults.forEach: decisions and rules of the non-null results, in
\* batch order
BatchDecisions(groups, from, results) ==
    Flatten([k \in 1..Len(results) |->
        IF results[k].state = "result"
        THEN << [albums |-> groups[from + k], decision |-> results[k].decision[1]] >>
        ELSE <<>>])

BatchRules(results) == Flatten([k \in 1..Len(results) |-> results[k].newRule])

\* potentialGroups.slice(i, i + batchSize), every promise pending
\* mutant: the slice is one group short of the step of the loop
SliceBatchShort(groups, i) ==
    LET last == IF i + batchSize - 1 < Len(groups) THEN i + batchSize - 1 ELSE Len(groups)
    IN  [k \in 1..(last - i) |-> Pending]

SliceBatch(groups, i) ==
    LET last == IF i + batchSize < Len(groups) THEN i + batchSize ELSE Len(groups)
    IN  [k \in 1..(last - i) |-> Pending]

\* mutant: only the new rules are written, the loaded ones are dropped
saveNewRulesOverwrites(file, existing, created) ==
    IF Len(created) = 0 THEN file ELSE WrittenFile(created)

\* saveNewRules: nothing is written when no rule was created; else the
\* loaded rules followed by the new ones are written
saveNewRules(file, existing, created) ==
    IF Len(created) = 0 THEN file ELSE WrittenFile(existing \o created)

\* what the oracle may answer about a group
Confidences == {50, 70}
Thresholds == {50, 70}
OtherName == <<"z">>

WellFormed(group) ==
    { Response(Object(Members(JBool(s), JNum(c), JStr(group[1].name), JStr(<<"r">>)))) :
        s \in BOOLEAN, c \in Confidences }
    \cup { Response(<<Tok("prose")>> \o
                    Object(Members(JBool(TRUE), JNum(70), JStr(OtherName), JStr(<<"r">>)))
                    \o <<Tok("prose")>>) }

NoJson == Response(<<Tok("prose")>>)

\* "{...} text }": the match runs to the last brace and is not JSON
Unparseable(group) ==
    Response(Object(Members(JBool(TRUE), JNum(70), JStr(group[1].name), JStr(<<"r">>)))
             \o <<Tok("prose"), Tok("}")>>)

\* confidence given as a string
WrongType(group) ==
    Response(Object(Members(JBool(TRUE), JStr(<<"7", "0">>), JStr(group[1].name), JStr(<<"r">>))))

EmptyObject == Response(<<Tok("{"), Tok("}")>>)

Failures(group) == {TransportError, NoJson, Unparseable(group), WrongType(group), EmptyObject}

OracleReplies(group) == WellFormed(group) \cup Failures(group)

\* a success, a failed call and a malformed text
BriefReplies(group) ==
    { Response(Object(Members(JBool(TRUE), JNum(70), JStr(group[1].name), JStr(<<"r">>)))),
      TransportError, NoJson }

\* confidence values (hundredths) inside and outside [0, 1]; 8500 is the
\* percentage 85
RangeConfidences == {0 - 10, 0, 50, 70, 100, 150, 8500}

\* the top-albums files on which the oracle's confidence is varied
RangeInputs ==
    { <<WithId(AlbumYr, 1), WithId(AlbumYd, 2)>>,
      <<WithId(AlbumYd, 1), WithId(AlbumYr, 2)>>,
      <<WithId(AlbumXr, 1), WithId(AlbumUx, 2)>> }

\* well-formed objects whose confidence is any number, and a failed call
RangeReplies(group) ==
    { Response(Object(Members(JBool(s), JNum(c), JStr(group[1].name), JStr(<<"r">>)))) :
        s \in BOOLEAN, c \in RangeConfidences }
    \cup {TransportError}

\* the answers considered for a group: all of them in a run of one batch,
\* the three kinds above in a run of several batches, the confidence values
\* on the files set apart for them
ReplyMenu(group) ==
    IF albums \in RangeInputs THEN RangeReplies(group)
    ELSE IF Len(potentialGroups) > batchSize THEN BriefReplies(group)
    ELSE OracleReplies(group)

\* main, after consolidateAlbums has returned: printAnalysisSummary changes
\* nothing, saveNewRules writes the file
AgentFinish(created) ==
    /\ ruleFile' = saveNewRules(ruleFile, memRules', created)
    /\ phase' = "done"

\* main up to the first batch in flight: the constructor loads the rules,
\* consolidateAlbums checks the connection (main exits with 1 when it throws),
\* finds the auto rules and the groups, and sends the first batch
agentConsolidateAlbums ==
    /\ RunStarts
    /\ \E confidenceThreshold \in Thresholds, isConnected \in BOOLEAN :
         LET loaded == LoadRules(ruleFile)
             auto   == IF isConnected THEN IdenticalRules(albums) ELSE <<>>
             groups == IF isConnected THEN findPotentialConsolidations(albums) ELSE <<>>
         IN  /\ runs' = runs + 1
             /\ pipeline' = "agent"
             /\ memRules' = IF isConnected /\ groups = <<>> THEN loaded \o auto ELSE loaded
             /\ loadedCount' = Len(loaded)
             /\ threshold' = confidenceThreshold
             /\ autoRules' = auto
             /\ potentialGroups' = groups
             /\ newRules' = auto
             /\ decisions' = <<>>
             /\ cursor' = 0
             /\ replies' = [g \in 1..Len(groups) |-> <<>>]
             /\ IF ~isConnected
                THEN /\ phase' = "failed"
                     /\ batch' = <<>>
                     /\ UNCHANGED ruleFile
                ELSE IF groups = <<>>
                THEN /\ batch' = <<>>
                     /\ AgentFinish(auto)
                ELSE /\ batch' = SliceBatch(groups, 0)
                     /\ phase' = "analyzing"
                     /\ UNCHANGED ruleFile
    /\ UNCHANGED <<foldVars, histVars, fetchVars, output, albums>>

\* the oracle answers one pending query of the batch; the answer that
\* settles the last promise lets Promise.all resolve: the results are
\* collected and the next batch is sent, or the run finishes
queryLLM ==
    /\ pipeline = "agent"
    /\ phase = "analyzing"
    /\ \E k \in 1..Len(batch) :
         /\ batch[k].state = "pending"
         /\ \E reply \in ReplyMenu(potentialGroups[cursor + k]) :
              LET group   == potentialGroups[cursor + k]
                  settled == [batch EXCEPT ![k] = BatchResult(group, reply, threshold)]
                  all     == \A j \in 1..Len(settled) : settled[j].state # "pending"
                  created == newRules \o BatchRules(settled)
                  i       == cursor + batchSize
              IN  /\ replies' = [replies EXCEPT ![cursor + k] = <<reply>>]
                  /\ IF ~all
                     THEN /\ batch' = settled
                          /\ UNCHANGED <<ruleFile, memRules, phase, cursor, newRules, decisions>>
                     ELSE /\ decisions' = decisions \o BatchDecisions(potentialGroups, cursor, settled)
                          /\ newRules' = created
                          /\ cursor' = i
                          /\ IF i < Len(potentialGroups)
                             THEN /\ batch' = SliceBatch(potentialGroups, i)
                                  /\ UNCHANGED <<ruleFile, memRules, phase>>
                             ELSE /\ batch' = settled
                                  /\ memRules' = memRules \o created
                                  /\ AgentFinish(created)
    /\ UNCHANGED <<foldVars, histVars, fetchVars, output, albums, runs, pipeline, loadedCount,
                   potentialGroups, threshold, autoRules>>

(***************************************************************************)
(* The rule pipelines run one after the other over the same top-albums     *)
(* file; the rule file is all that one run leaves to the next.             *)
(***************************************************************************)
FoldIdle ==
    /\ consolidator = "none"
    /\ records = <<>>
    /\ pos = 0
    /\ consolidatedMap = <<>>
    /\ returned = FALSE

InitRules ==
    /\ FoldIdle
    /\ HistoryIdle
    /\ FetchIdle
    /\ output = <<>>
    /\ ruleFile = NoRuleFile
    /\ albums \in AlbumInputs
    /\ runs = 0
    /\ pipeline = "none"
    /\ phase = "idle"
    /\ memRules = <<>>
    /\ loadedCount = 0
    /\ potentialGroups = <<>>
    /\ cursor = 0
    /\ threshold = 0
    /\ autoRules = <<>>
    /\ newRules = <<>>
    /\ decisions = <<>>
    /\ batch = <<>>
    /\ replies = <<>>

NextRules ==
    \/ interactiveConsolidateAlbums
    \/ askUserConsolidation
    \/ agentConsolidateAlbums
    \/ queryLLM

SpecRules == InitRules /\ [][NextRules]_vars

(***************************************************************************)
(* Properties of the rule pipelines                                        *)
(***************************************************************************)
IsPrefix(s, t) == Len(s) <= Len(t) /\ SubSeq(t, 1, Len(s)) = s

\* the rules the run in progress has created so far
CreatedRules ==
    IF pipeline = "interactive"
    THEN SubSeq(memRules, loadedCount + 1, Len(memRules))
    ELSE newRules

\* C6: when a run has ended, every rule it created (auto-merge of identical
\* names, or group approved by the resolver) is in the persisted rule file,
\* also when the run found no ambiguous group.
C6_CreatedRulesPersisted ==
    phase = "done" =>
        \A r \in Range(CreatedRules) : ruleFile.exists /\ r \in Range(ruleFile.rules)

\* the groups of the run in progress the resolver has been asked about
ResolverInvoked ==
    IF pipeline = "interactive"
    THEN LET asked == IF phase = "prompting" THEN cursor + 1 ELSE Len(potentialGroups)
         IN  { potentialGroups[g].albums : g \in 1..asked }
    ELSE IF pipeline = "agent"
    THEN LET sent == IF phase = "analyzing" THEN cursor + Len(batch)
                     ELSE Len(potentialGroups)
         IN  { potentialGroups[g] : g \in 1..sent }
    ELSE {}

\* the rules the run in progress found in the rule store when it started
StoreAtStart == SubSeq(memRules, 1, loadedCount)

\* C7: a run does not invoke the resolver (prompt or oracle query) for a
\* group that a rule already in the store covers (same artist, one of the
\* group's names among the rule's variations).
C7_CoveredGroupNotResolvedAgain ==
    \A group \in ResolverInvoked :
        ~ \E r \in Range(StoreAtStart) :
              RuleCovers(r, ToLowerCase(group[1].artist), group)

ReplyMembers(reply) ==
    reply.text[CHOOSE i \in 1..Len(reply.text) : reply.text[i].t = "members"].v

\* the oracle's own verdict on group g approves the merge at the threshold
Approved(g) ==
    /\ replies[g] # <<>>
    /\ replies[g][1] \in WellFormed(potentialGroups[g])
    /\ ReplyMembers(replies[g][1]).shouldConsolidate.v
    /\ ReplyMembers(replies[g][1]).confidence.v >= threshold

ApprovedRule(g) ==
    [artistName |-> potentialGroups[g][1].artist,
     baseAlbumName |-> ReplyMembers(replies[g][1]).canonicalName.v,
     variations |-> LowerNames(potentialGroups[g])]

\* C9: the agent creates a rule for an ambiguous group exactly when the
\* oracle's decision says shouldConsolidate with confidence >= threshold; a
\* failed oracle call (fallback decision) creates none.  So the rules of a
\* finished run are the auto rules followed by one rule per approved group.
C9_RuleIffApprovedAtThreshold ==
    (pipeline = "agent" /\ phase = "done") =>
        /\ newRules = autoRules \o
              Flatten([g \in 1..Len(potentialGroups) |->
                          IF Approved(g) THEN <<ApprovedRule(g)>> ELSE <<>>])
        /\ \A g \in 1..Len(potentialGroups) :
              replies[g][1] \in Failures(potentialGroups[g]) => ~Approved(g)

\* a finished run in which one group was approved with confidence exactly at
\* the threshold and the oracle call for another group failed
C9_Witness ==
    /\ pipeline = "agent"
    /\ phase = "done"
    /\ \E g \in 1..Len(potentialGroups) :
          Approved(g) /\ ReplyMembers(replies[g][1]).confidence.v = threshold
    /\ \E g \in 1..Len(potentialGroups) :
          replies[g][1] \in Failures(potentialGroups[g])

IsFallback(decision, group) ==
    /\ decision.shouldConsolidate = FALSE
    /\ decision.confidence = 0
    /\ decision.canonicalName = group[1].name

OwnDecision(decision, reply) ==
    /\ decision.shouldConsolidate = ReplyMembers(reply).shouldConsolidate.v
    /\ decision.confidence = ReplyMembers(reply).confidence.v
    /\ decision.canonicalName = ReplyMembers(reply).canonicalName.v

\* C10: whatever the oracle does on a group (transport error, no parseable
\* JSON, wrong field type), analyzeAlbumGroup returns the fallback decision
\* {false, 0, first member's name} and throws nothing; the other groups of
\* the batch get their own decisions, and the finished run has one decision
\* per group.
C10_FallbackOnOracleFailure ==
    /\ (pipeline = "agent" /\ phase = "analyzing") =>
          \A k \in 1..Len(batch) :
              replies[cursor + k] # <<>> =>
                  /\ batch[k].state = "result"
                  /\ replies[cursor + k][1] \in Failures(potentialGroups[cursor + k])
                        => IsFallback(batch[k].decision[1], potentialGroups[cursor + k])
                  /\ replies[cursor + k][1] \in WellFormed(potentialGroups[cursor + k])
                        => OwnDecision(batch[k].decision[1], replies[cursor + k][1])
    /\ (pipeline = "agent" /\ phase = "done") =>
          /\ Len(decisions) = Len(potentialGroups)
          /\ \A g \in 1..Len(potentialGroups) :
                /\ decisions[g].albums = potentialGroups[g]
                /\ replies[g][1] \in Failures(potentialGroups[g])
                      => IsFallback(decisions[g].decision, potentialGroups[g])
                /\ replies[g][1] \in WellFormed(potentialGroups[g])
                      => OwnDecision(decisions[g].decision, replies[g][1])

\* a batch of two groups: the oracle's answer for the first had a field of
\* the wrong type, the second got the oracle's own decision
C10_Witness ==
    /\ pipeline = "agent"
    /\ phase = "done"
    /\ Len(potentialGroups) = 2
    /\ replies[1][1] = WrongType(potentialGroups[1])
    /\ IsFallback(decisions[1].decision, potentialGroups[1])
    /\ replies[2][1] \in WellFormed(potentialGroups[2])
    /\ decisions[2].decision.shouldConsolidate

(***************************************************************************)
(* Oracle unreachable                                                      *)
(***************************************************************************)
\* C11: an agent run completes even when the oracle cannot be reached: it
\* never ends in failure, and when it has ended it returns the auto-merge
\* rules of the input and one decision for every ambiguous group.
C11_UnreachableOracleNotFatal ==
    pipeline = "agent" =>
        /\ phase # "failed"
        /\ phase = "done" =>
              /\ IsPrefix(IdenticalRules(albums), newRules)
              /\ Len(decisions) = Len(findPotentialConsolidations(albums))

(***************************************************************************)
(* The batch loop of the agent, with more groups than one batch holds      *)
(***************************************************************************)
\* six artists with one ambiguous group each, the albums of the artists
\* interleaved in the file
ManyArtists == << <<"a">>, <<"b">>, <<"c">>, <<"d">>, <<"e">>, <<"f">> >>

ManyGroups ==
    [i \in 1..(2 * Len(ManyArtists)) |->
        IF i <= Len(ManyArtists)
        THEN [id |-> i, artist |-> ManyArtists[i], name |-> <<"x">>,
              count |-> 2, duration_ms |-> 4]
        ELSE [id |-> i, artist |-> ManyArtists[i - Len(ManyArtists)],
              name |-> <<"x", " ", "(", "r", ")">>, count |-> 5, duration_ms |-> 9]]

\* the last run the bound allows; what earlier runs left in the rule file is
\* never read by the batch loop
InitBatches ==
    /\ FoldIdle
    /\ HistoryIdle
    /\ FetchIdle
    /\ output = <<>>
    /\ ruleFile = NoRuleFile
    /\ albums \in {ManyGroups, SortByCountDesc(ManyGroups)}
    /\ runs = MaxRuns - 1
    /\ pipeline = "none"
    /\ phase = "idle"
    /\ memRules = <<>>
    /\ loadedCount = 0
    /\ potentialGroups = <<>>
    /\ cursor = 0
    /\ threshold = 0
    /\ autoRules = <<>>
    /\ newRules = <<>>
    /\ decisions = <<>>
    /\ batch = <<>>
    /\ replies = <<>>

NextBatches ==
    \/ agentConsolidateAlbums
    \/ queryLLM

SpecBatches == InitBatches /\ [][NextBatches]_vars

\* C12: the decisions hold exactly one decision per group already collected,
\* in the order of the groups, whatever the order of the replies and whether
\* each call succeeded, failed or returned malformed text; a finished run
\* has one decision for every group.
C12_OneDecisionPerGroup ==
    pipeline = "agent" =>
        LET collected == IF phase = "done" THEN Len(potentialGroups)
                         ELSE IF phase = "analyzing" THEN cursor ELSE 0
        IN  /\ Len(decisions) = collected
            /\ \A g \in 1..collected :
                  Cardinality({i \in 1..Len(decisions) :
                                  decisions[i].albums = potentialGroups[g]}) = 1

\* a finished run of two batches in which a call succeeded, a call failed
\* and a call returned text without JSON
C12_Witness ==
    /\ pipeline = "agent"
    /\ phase = "done"
    /\ Len(potentialGroups) > batchSize
    /\ Len(decisions) = Len(potentialGroups)
    /\ \E g \in 1..Len(potentialGroups) : replies[g][1] = TransportError
    /\ \E g \in 1..Len(potentialGroups) : replies[g][1] = NoJson
    /\ \E g \in 1..Len(potentialGroups) : decisions[g].decision.shouldConsolidate

(***************************************************************************)
(* Sort, truncate, rank: the last step of the consolidators, on Maps of    *)
(* about 500 entries                                                       *)
(***************************************************************************)
Margin == 2

\* consolidate-albums-with-songs.ts:
\* .sort((a, b) => b.total_play_count - a.total_play_count), stable
RECURSIVE BucketsByTotalPlayCount(_, _)
BucketsByTotalPlayCount(s, counts) ==
    IF counts = {} THEN <<>>
    ELSE LET top == CHOOSE c \in counts : \A d \in counts : d <= c
         IN  SelectSeq(s, LAMBDA e : e.total_play_count = top)
                \o BucketsByTotalPlayCount(s, counts \ {top})

\* .sort(...).map((album, index) => ({...album, rank: index + 1})): no slice
SortRank(map) ==
    LET sorted == BucketsByTotalPlayCount(map, {map[i].total_play_count : i \in 1..Len(map)})
    IN  [i \in 1..Len(sorted) |-> [sorted[i] EXCEPT !.rank = i]]

\* how the play counts lie in the Map, entry i being the i-th key first seen
CountPatterns == {"equal", "cycle", "lastBest", "firstWorst"}

PatternCount(pattern, i, n) ==
    CASE pattern = "equal" -> 1
      [] pattern = "cycle" -> (i % 3) + 1
      [] pattern = "lastBest" -> IF i = n THEN 2 ELSE 1
      [] pattern = "firstWorst" -> IF i = 1 THEN 0 ELSE 1

MapSizes == 0..Margin \cup (TopN - Margin)..(TopN + Margin)

RankedConsolidators == {"songs", "albums", "tableAlbums", "artists"}

\* the values of the Map when the loop has ended; key i is the i-th key seen
MapValues(kind, pattern, n) ==
    IF kind = "albumsWithSongs"
    THEN [i \in 1..n |-> [key |-> i, total_play_count |-> PatternCount(pattern, i, n), rank |-> 0]]
    ELSE [i \in 1..n |-> [key |-> i, count |-> PatternCount(pattern, i, n), rank |-> 0]]

InitRank ==
    /\ RulesIdle
    /\ HistoryIdle
    /\ FetchIdle
    /\ consolidator \in RankedConsolidators \cup {"albumsWithSongs"}
    /\ records = <<>>
    /\ pos = 0
    /\ \E pattern \in CountPatterns, n \in MapSizes :
          consolidatedMap = MapValues(consolidator, pattern, n)
    /\ returned = FALSE
    /\ output = <<>>

\* consolidateAlbumsWithSongs: the returned array
consolidateAlbumsWithSongs ==
    /\ ~returned
    /\ consolidator = "albumsWithSongs"
    /\ output' = SortRank(consolidatedMap)
    /\ returned' = TRUE
    /\ UNCHANGED <<consolidator, records, pos, consolidatedMap, ruleVars, histVars, fetchVars>>

NextRank ==
    \/ ReturnRanked
    \/ consolidateAlbumsWithSongs

SpecRank == InitRank /\ [][NextRank]_vars

PlayCount(e) == IF consolidator = "albumsWithSongs" THEN e.total_play_count ELSE e.count

\* the output is a ranking of the first `limit` entities of the descending,
\* first-seen-first order of the Map
RankedTop(limit) ==
    /\ Len(output) = limit
    /\ \A i \in 1..Len(output) :
          /\ output[i].rank = i
          /\ output[i].key \in 1..Len(consolidatedMap)
          /\ PlayCount(output[i]) = PlayCount(consolidatedMap[output[i].key])
    /\ \A i \in 1..(Len(output) - 1) :
          \/ PlayCount(output[i]) > PlayCount(output[i + 1])
          \/ /\ PlayCount(output[i]) = PlayCount(output[i + 1])
             /\ output[i].key < output[i + 1].key
    /\ \A k \in 1..Len(consolidatedMap) :
          (\A i \in 1..Len(output) : output[i].key # k) =>
              /\ Len(output) > 0
              /\ PlayCount(consolidatedMap[k]) <= PlayCount(output[Len(output)])

Least(a, b) == IF a < b THEN a ELSE b

WeekDays == <<"Thu", "Fri", "Sat", "Sun", "Mon", "Tue", "Wed">>

\* the weekday names in code-unit order
Alphabetical == <<"Fri", "Mon", "Sat", "Sun", "Thu", "Tue", "Wed">>

\* Date.prototype.toString(): "Thu Jan 01 1970 ...", the weekday name, then the
\* month (the same for every timestamp here), then the two-digit day
DateToString(t) == [weekday |-> WeekDays[(t % 7) + 1], day |-> t + 1]

\* position of DateToString(t) among the strings, in code-unit order
StringOrder(t) ==
    LET str == DateToString(t)
    IN  (CHOOSE i \in 1..7 : Alphabetical[i] = str.weekday) * 100 + str.day

\* Array.prototype.sort is stable: indices by ascending sort value, ties in
\* the order they had
IndicesInOrder(values, left) ==
    LET before(i) == {j \in left : values[j] < values[i]
                                      \/ (values[j] = values[i] /\ j < i)}
        place == [i \in left |-> Cardinality(before(i)) + 1]
    IN  [k \in 1..Cardinality(left) |-> CHOOSE i \in left : place[i] = k]

\* s sorted by the value values[i] of its i-th element
StableSort(s, values) ==
    LET idx == IndicesInOrder(values, 1..Len(s))
    IN  [k \in 1..Len(s) |-> s[idx[k]]]

\* sort((a, b) => a.getTime() - b.getTime()) on an array of dates
SortByGetTime(dates) == StableSort(dates, dates)

\* sort() with no comparator: elements are compared as strings
DefaultSort(dates) == StableSort(dates, [i \in 1..Len(dates) |-> StringOrder(dates[i])])

\* '' when the array is empty, else the date, as a sequence of at most one date
FirstOrEmpty(dates) == IF dates = <<>> THEN <<>> ELSE <<dates[1]>>

LastOrEmpty(dates) == IF dates = <<>> THEN <<>> ELSE <<dates[Len(dates)]>>

(***************************************************************************)
(* MemoryEfficientHistoryBuilder                                           *)
(***************************************************************************)
\* "Limit to last 100 events per song"
EventLimit == 100

UnknownArtist == <<"U", "n", "k", "n", "o", "w", "n", " ", "A", "r", "t", "i", "s", "t">>

\* raw_artists.json: id -> name
RawArtists == [id \in {1, 2} |-> IF id = 1 THEN <<"a">> ELSE <<"A">>]

\* raw_tracks.json; the second track is the first under another id and
\* spelling, the third has no artist
RawTracks ==
    <<[id |-> 1, name |-> <<"x">>,      artists |-> <<1>>],
      [id |-> 2, name |-> <<"X", " ">>, artists |-> <<2>>],
      [id |-> 3, name |-> <<"x">>,      artists |-> <<>>]>>

\* this.tracks.has(trackId)
HasTrack(trackId) == \E i \in 1..Len(RawTracks) : RawTracks[i].id = trackId

\* this.tracks.get(trackId)
GetTrack(trackId) == RawTracks[CHOOSE i \in 1..Len(RawTracks) : RawTracks[i].id = trackId]

\* artist ? artist.name : 'Unknown Artist'
ArtistNameOf(artistId) ==
    IF artistId \in DOMAIN RawArtists THEN RawArtists[artistId] ELSE UnknownArtist

\* the events of one track as loadRawData has accumulated them: every event
\* counts, the first EventLimit are stored
TrackEvents(events, trackId) == SelectSeq(events, LAMBDA e : e.id = trackId)

StoredEvents(evs) ==
    [i \in 1..(IF Len(evs) < EventLimit THEN Len(evs) ELSE EventLimit) |->
        [playedAt |-> evs[i].played_at, msPlayed |-> evs[i].durationMs]]

CompleteSongOf(track, evs) ==
    [songId |-> track.id,
     name |-> track.name,
     artists |-> [i \in 1..Len(track.artists) |-> ArtistNameOf(track.artists[i])],
     artist |-> IF track.artists = <<>> THEN UnknownArtist
                ELSE ArtistNameOf(track.artists[1]),
     playCount |-> Len(evs),
     totalListeningTime |-> SumSeq([i \in 1..Len(evs) |-> evs[i].durationMs]),
     listeningEvents |-> StoredEvents(evs)]

\* completeSongs.sort((a, b) => b.playCount - a.playCount)
SortByPlayCountDesc(songs) ==
    StableSort(songs, [i \in 1..Len(songs) |-> 0 - songs[i].playCount])

buildCompleteHistoryData(events) ==
    LET trackIds == DistinctInOrder([i \in 1..Len(events) |-> events[i].id])
        found == SelectSeq(trackIds, HasTrack)
        completeSongs ==
            SortByPlayCountDesc(
                [k \in 1..Len(found) |->
                    CompleteSongOf(GetTrack(found[k]), TrackEvents(events, found[k]))])
        allDates == DefaultSort([i \in 1..Len(events) |-> events[i].played_at])
    IN  [songs |-> completeSongs,
         metadata |->
            [totalSongs |-> Len(completeSongs),
             totalListeningEvents |-> Len(events),
             totalListeningTime |->
                SumSeq([k \in 1..Len(completeSongs) |-> completeSongs[k].totalListeningTime]),
             earliest |-> FirstOrEmpty(allDates),
             latest |-> LastOrEmpty(allDates)]]

(***************************************************************************)
(* StreamingHistoryMerger                                                  *)
(***************************************************************************)
\* songMap.has / songMap.get: position of the song stored under songId, 0 when absent
SongIdIndex(songMap, songId) ==
    IF \E i \in 1..Len(songMap) : songMap[i].songId = songId
    THEN CHOOSE i \in 1..Len(songMap) : songMap[i].songId = songId
    ELSE 0

StreamingSongNew(entry) ==
    [songId |-> entry.uri,
     name |-> entry.name,
     artists |-> <<entry.artist>>,
     artist |-> entry.artist,
     playCount |-> 1,
     totalListeningTime |-> entry.ms_played,
     listeningEvents |-> <<[playedAt |-> entry.ts, msPlayed |-> entry.ms_played]>>]

StreamingSongMerge(existingSong, entry) ==
    [existingSong EXCEPT
        !.playCount = @ + 1,
        !.totalListeningTime = @ + entry.ms_played,
        !.listeningEvents = Append(@, [playedAt |-> entry.ts, msPlayed |-> entry.ms_played])]

RECURSIVE StreamingFold(_, _)
StreamingFold(songMap, entries) ==
    IF entries = <<>> THEN songMap
    ELSE LET entry == Head(entries)
             at == SongIdIndex(songMap, entry.uri)
         IN  StreamingFold(IF at # 0
                           THEN [songMap EXCEPT ![at] = StreamingSongMerge(songMap[at], entry)]
                           ELSE Append(songMap, StreamingSongNew(entry)),
                           Tail(entries))

\* song.listeningEvents.sort((a, b) => new Date(a.playedAt).getTime() - ...)
SortEvents(events) == StableSort(events, [i \in 1..Len(events) |-> events[i].playedAt])

consolidateBySong(entries) ==
    LET songMap == StreamingFold(<<>>, entries)
    IN  [i \in 1..Len(songMap) |->
            [songMap[i] EXCEPT !.listeningEvents = SortEvents(@)]]

\* files: the entries of each Streaming_History_Audio_*.json, in directory order
mergeStreamingHistoryData(files) ==
    LET read == Flatten(files)
        allEntries == StableSort(read, [i \in 1..Len(read) |-> read[i].ts])
        consolidatedSongs == consolidateBySong(allEntries)
    IN  [songs |-> consolidatedSongs,
         metadata |->
            [totalSongs |-> Len(consolidatedSongs),
             totalPlayEvents |-> Len(allEntries),
             earliest |-> FirstOrEmpty([i \in 1..Len(allEntries) |-> allEntries[i].ts]),
             latest |-> LastOrEmpty([i \in 1..Len(allEntries) |-> allEntries[i].ts])]]

(***************************************************************************)
(* DataMerger.mergeData on a complete listening history                    *)
(***************************************************************************)
Unknown == <<"u", "n", "k", "n", "o", "w", "n">>

\* artists[0]?.toLowerCase().trim() || 'unknown'
FirstArtistOrUnknown(artists) ==
    IF artists = <<>> \/ Trim(ToLowerCase(artists[1])) = <<>> THEN Unknown
    ELSE Trim(ToLowerCase(artists[1]))

\* the key of an existing song and of a play: both have name and artists
CompleteSongKey(song) ==
    Trim(ToLowerCase(song.name)) \o Pipe \o FirstArtistOrUnknown(song.artists)

\* existingSongsMap.get(key): Map.set replaces, so of the songs of one key the
\* map holds the last; 0 when the key is absent
ExistingSongIndex(songs, key) ==
    LET at == {i \in 1..Len(songs) : CompleteSongKey(songs[i]) = key}
    IN  IF at = {} THEN 0 ELSE CHOOSE i \in at : \A j \in at : j <= i

\* play.artists[0] || 'Unknown Artist'
FirstArtistOrUnknownArtist(artists) ==
    IF artists = <<>> \/ artists[1] = <<>> THEN UnknownArtist ELSE artists[1]

NewCompleteSong(play) ==
    [songId |-> play.id,
     name |-> play.name,
     artists |-> play.artists,
     artist |-> FirstArtistOrUnknownArtist(play.artists),
     playCount |-> 1,
     totalListeningTime |-> play.duration_ms,
     listeningEvents |-> <<[playedAt |-> play.played_at, msPlayed |-> play.duration_ms]>>]

UpdateCompleteSong(existingSong, play) ==
    [existingSong EXCEPT
        !.playCount = @ + 1,
        !.totalListeningTime = @ + play.duration_ms,
        !.listeningEvents = Append(@, [playedAt |-> play.played_at,
                                       msPlayed |-> play.duration_ms])]

\* recentPlays.forEach: the map was filled before the loop and is not written
\* in it, so a new song is not found by the plays that follow it
RECURSIVE MergePlays(_, _, _)
MergePlays(songs, newSongs, plays) ==
    IF plays = <<>> THEN [songs |-> songs, newSongs |-> newSongs]
    ELSE LET play == Head(plays)
             at == ExistingSongIndex(songs, CompleteSongKey(play))
         IN  IF at # 0
             THEN MergePlays([songs EXCEPT ![at] = UpdateCompleteSong(songs[at], play)],
                             newSongs, Tail(plays))
             ELSE MergePlays(songs, Append(newSongs, NewCompleteSong(play)), Tail(plays))

\* existingData.songs.flatMap(song => song.listeningEvents.map(event => new Date(event.playedAt)))
AllEventDates(songs) ==
    Flatten([i \in 1..Len(songs) |->
        [k \in 1..Len(songs[i].listeningEvents) |-> songs[i].listeningEvents[k].playedAt]])

mergeData(existing, recentPlays) ==
    LET merged == MergePlays(existing.songs, <<>>, recentPlays)
        songs == merged.songs \o merged.newSongs
        allDates == SortByGetTime(AllEventDates(songs))
    IN  [songs |-> songs,
         metadata |->
            [existing.metadata EXCEPT
                !.totalSongs = @ + Len(merged.newSongs),
                !.totalListeningEvents = @ + Len(recentPlays),
                !.totalListeningTime =
                    @ + SumSeq([i \in 1..Len(recentPlays) |-> recentPlays[i].duration_ms]),
                !.earliest = IF allDates # <<>> THEN FirstOrEmpty(allDates) ELSE @,
                !.latest = IF allDates # <<>> THEN LastOrEmpty(allDates) ELSE @]]

(***************************************************************************)
(* CleanedFilesGenerator: cleaned-songs file from the complete history     *)
(***************************************************************************)
RECURSIVE HistorySongFoldAll(_, _)
HistorySongFoldAll(map, songs) ==
    IF songs = <<>> THEN map
    ELSE HistorySongFoldAll(HistorySongFold(map, Head(songs)), Tail(songs))

\* the Map value as the file holds it
CleanedSongOf(entry) ==
    [songId |-> entry.original_ids[1],
     name |-> entry.name,
     artist |-> entry.artist,
     count |-> entry.count,
     consolidated_count |-> entry.consolidated_count,
     duration_ms |-> entry.duration_ms,
     original_songIds |-> entry.original_ids]

generateCleanedSongs(history) ==
    LET songs == [i \in 1..Len(history.songs) |->
                    [id |-> history.songs[i].songId,
                     name |-> history.songs[i].name,
                     artist |-> history.songs[i].artist,
                     count |-> history.songs[i].playCount,
                     duration_ms |-> history.songs[i].totalListeningTime]]
        consolidatedSongs == SortByCountDesc(HistorySongFoldAll(<<>>, songs))
    IN  [k \in 1..Len(consolidatedSongs) |-> CleanedSongOf(consolidatedSongs[k])]

\* saveCleanedFiles: cleaned-songs-<timestamp>.json
CleanedSongsFile(history) ==
    LET songs == generateCleanedSongs(history)
    IN  [songs |-> SubSeq(songs, 1, IF Len(songs) < TopN THEN Len(songs) ELSE TopN),
         metadata |->
            [originalTotalSongs |-> history.metadata.totalSongs,
             consolidatedTotalSongs |-> Len(songs),
             totalListeningEvents |-> history.metadata.totalListeningEvents]]

(***************************************************************************)
(* DataMerger.mergeData on a cleaned-songs file                            *)
(***************************************************************************)
\* the key of an existing song: song.name and artist.name
CleanedSongKey(song) ==
    Trim(ToLowerCase(song.name)) \o Pipe \o Trim(ToLowerCase(song.artist))

\* existingSongsMap.get(key) over the songs the file held when the map was
\* filled (the first loaded of them); 0 when the key is absent
CleanedSongIndex(songs, loaded, key) ==
    LET at == {i \in 1..loaded : CleanedSongKey(songs[i]) = key}
    IN  IF at = {} THEN 0 ELSE CHOOSE i \in at : \A j \in at : j <= i

NewCleanedSong(play) ==
    [songId |-> play.id,
     name |-> play.name,
     artist |-> FirstArtistOrUnknownArtist(play.artists),
     count |-> 1,
     consolidated_count |-> 1,
     duration_ms |-> play.duration_ms,
     original_songIds |-> <<play.id>>]

UpdateCleanedSong(existingSong, play) ==
    [existingSong EXCEPT
        !.count = @ + 1,
        !.consolidated_count = @ + 1,
        !.duration_ms = @ + play.duration_ms,
        !.original_songIds = Append(@, play.id)]

\* recentPlays.forEach: new songs are pushed onto existingData.songs, not
\* into the map
RECURSIVE MergeCleanedPlays(_, _, _)
MergeCleanedPlays(songs, loaded, plays) ==
    IF plays = <<>> THEN songs
    ELSE LET play == Head(plays)
             at == CleanedSongIndex(songs, loaded, CompleteSongKey(play))
         IN  MergeCleanedPlays(IF at # 0
                               THEN [songs EXCEPT ![at] = UpdateCleanedSong(songs[at], play)]
                               ELSE Append(songs, NewCleanedSong(play)),
                               loaded, Tail(plays))

mergeCleanedData(existing, recentPlays) ==
    LET songs == MergeCleanedPlays(existing.songs, Len(existing.songs), recentPlays)
    IN  [songs |-> songs,
         metadata |->
            [existing.metadata EXCEPT
                !.originalTotalSongs = @ + (Len(songs) - Len(existing.songs)),
                !.consolidatedTotalSongs = Len(songs),
                !.totalListeningEvents = @ + Len(recentPlays)]]

(***************************************************************************)
(* Listening history: inputs                                               *)
(***************************************************************************)
MaxMerges == 2

\* a raw listening event of track id on day t
RawEvent(id, t) == [id |-> id, durationMs |-> 1, played_at |-> t]

\* a raw history with one event of track 1 more than the builder stores: the
\* last event is a day older than the others
LongHistory ==
    [i \in 1..(EventLimit + 1) |-> RawEvent(1, IF i <= EventLimit THEN 2 ELSE 1)]

\* raw_listening_history.json; track 8 is not in raw_tracks.json
RawHistories ==
    {<<>>,
     LongHistory,
     <<RawEvent(1, 1)>>,
     <<RawEvent(1, 0), RawEvent(1, 1)>>,
     <<RawEvent(1, 0), RawEvent(2, 1)>>,
     <<RawEvent(3, 1)>>,
     <<RawEvent(1, 1), RawEvent(3, 0), RawEvent(3, 1)>>,
     <<RawEvent(8, 0), RawEvent(1, 1)>>}

\* a recently played item as fetchRecentPlays maps it: tracks 1..3 are the
\* raw tracks under their artists' names, track 4 is in no raw file
RecentPlay(id, t) ==
    [id |-> id,
     name |-> IF id = 4 THEN <<"y">> ELSE GetTrack(id).name,
     artists |-> IF id = 4 THEN <<<<"a">>>>
                 ELSE [i \in 1..Len(GetTrack(id).artists) |->
                          ArtistNameOf(GetTrack(id).artists[i])],
     duration_ms |-> 1,
     played_at |-> t]

\* recent-plays files: the API lists the newest play first
RecentPlaysFiles ==
    {<<>>,
     <<RecentPlay(1, 2)>>,
     <<RecentPlay(1, 0)>>,
     <<RecentPlay(4, 2), RecentPlay(4, 1)>>,
     <<RecentPlay(3, 2)>>,
     <<RecentPlay(2, 2), RecentPlay(1, 1)>>}

\* an entry of a Streaming_History_Audio file
StreamingEntry(id, t) ==
    [uri |-> id,
     name |-> GetTrack(id).name,
     artist |-> ArtistNameOf(GetTrack(id).artists[1]),
     ms_played |-> 1,
     ts |-> t]

\* the files of the spotify-history directory, in directory order
StreamingHistories ==
    {<< <<>> >>,
     << <<StreamingEntry(1, 1), StreamingEntry(1, 0)>> >>,
     << <<StreamingEntry(2, 2)>>, <<StreamingEntry(1, 1), StreamingEntry(2, 0)>> >>}

(***************************************************************************)
(* Listening history: actions                                              *)
(***************************************************************************)
\* MemoryEfficientHistoryBuilder.buildCompleteHistory
buildCompleteHistory ==
    /\ source = "none"
    /\ \E events \in RawHistories :
          existingData' = buildCompleteHistoryData(events)
    /\ source' = "builder"
    /\ initialData' = existingData'
    /\ UNCHANGED <<merges, mergedPlays>>
    /\ UNCHANGED <<foldVars, output, ruleVars, fetchVars>>

\* StreamingHistoryMerger.mergeStreamingHistory
mergeStreamingHistory ==
    /\ source = "none"
    /\ \E files \in StreamingHistories :
          existingData' = mergeStreamingHistoryData(files)
    /\ source' = "streaming"
    /\ initialData' = existingData'
    /\ UNCHANGED <<merges, mergedPlays>>
    /\ UNCHANGED <<foldVars, output, ruleVars, fetchVars>>

\* DataMerger.mergeRecentData: the latest complete history, a recent-plays
\* file, mergeData, save
mergeRecentData ==
    /\ source = "builder"
    /\ merges < MaxMerges
    /\ \E plays \in RecentPlaysFiles :
          /\ existingData' = mergeData(existingData, plays)
          /\ mergedPlays' = Append(mergedPlays, plays)
    /\ merges' = merges + 1
    /\ UNCHANGED <<source, initialData>>
    /\ UNCHANGED <<foldVars, output, ruleVars, fetchVars>>

\* CleanedFilesGenerator.generateCleanedFiles: the latest complete history
\* becomes the cleaned-songs file
generateCleanedFiles ==
    /\ source = "builder"
    /\ existingData' = CleanedSongsFile(existingData)
    /\ source' = "cleaned"
    /\ initialData' = existingData'
    /\ mergedPlays' = <<>>
    /\ UNCHANGED merges
    /\ UNCHANGED <<foldVars, output, ruleVars, fetchVars>>

\* DataMerger.mergeRecentData of the cleaned-songs merger
mergeRecentCleanedData ==
    /\ source = "cleaned"
    /\ merges < MaxMerges
    /\ \E plays \in RecentPlaysFiles :
          /\ existingData' = mergeCleanedData(existingData, plays)
          /\ mergedPlays' = Append(mergedPlays, plays)
    /\ merges' = merges + 1
    /\ UNCHANGED <<source, initialData>>
    /\ UNCHANGED <<foldVars, output, ruleVars, fetchVars>>

InitHistory ==
    /\ FoldIdle
    /\ output = <<>>
    /\ RulesIdle
    /\ HistoryIdle
    /\ FetchIdle

NextHistory ==
    \/ buildCompleteHistory
    \/ mergeStreamingHistory
    \/ mergeRecentData
    \/ generateCleanedFiles
    \/ mergeRecentCleanedData

SpecHistory == InitHistory /\ [][NextHistory]_vars

(***************************************************************************)
(* Properties of the incremental merge                                     *)
(***************************************************************************)
\* the grouping key mergeData files a song of the aggregate under
SongKeyOf(song) ==
    IF source = "cleaned" THEN CleanedSongKey(song) ELSE CompleteSongKey(song)

\* the play counter of a song of the aggregate
PlayCountOf(song) == IF source = "cleaned" THEN song.count ELSE song.playCount

\* total play count over the songs of one key
KeyPlayCount(data, key) ==
    SumSeq([i \in 1..Len(data.songs) |->
               IF SongKeyOf(data.songs[i]) = key THEN PlayCountOf(data.songs[i]) ELSE 0])

\* number of events of one key in the batches merged so far
KeyEvents(key) ==
    Len(SelectSeq(Flatten(mergedPlays), LAMBDA play : CompleteSongKey(play) = key))

MergeKeys ==
    {SongKeyOf(existingData.songs[i]) : i \in 1..Len(existingData.songs)}
    \cup {CompleteSongKey(play) : play \in Range(Flatten(mergedPlays))}

\* C14: mergeData is additive: after the batches merged so far, the total
\* play count over the songs of every key is its value before the first merge
\* plus the number of events of that key in every batch, a batch merged twice
\* counted twice.
C14_MergeAdditive ==
    source \in {"builder", "cleaned"} =>
        \A key \in MergeKeys :
            KeyPlayCount(existingData, key) = KeyPlayCount(initialData, key) + KeyEvents(key)

\* the songs of an aggregate have pairwise distinct grouping keys
DistinctKeys(data) ==
    \A i, j \in 1..Len(data.songs) :
        SongKeyOf(data.songs[i]) = SongKeyOf(data.songs[j]) => i = j

\* C15: when the songs of the aggregate had pairwise distinct grouping keys
\* before the first mergeData, they still have after any sequence of
\* mergeData calls: the plays of one key, also those of a song first seen in
\* the batch, are counted on a single song.
C15_OneSongPerKey ==
    (source \in {"builder", "cleaned"} /\ DistinctKeys(initialData))
        => DistinctKeys(existingData)

\* the listeningEvents of every song are in non-decreasing playedAt order
EventsOrdered(data) ==
    \A i \in 1..Len(data.songs) :
        \A k \in 1..(Len(data.songs[i].listeningEvents) - 1) :
            data.songs[i].listeningEvents[k].playedAt
                <= data.songs[i].listeningEvents[k + 1].playedAt

\* C16: a mergeData call on a complete history whose songs all have their
\* listeningEvents in non-decreasing playedAt order leaves them so, whatever
\* the order and the timestamps of the incoming plays.
C16_MergeKeepsEventOrder ==
    [][(source = "builder" /\ merges' = merges + 1 /\ EventsOrdered(existingData))
          => EventsOrdered(existingData')]_vars

\* the chronologically earliest and latest of a non-empty array of dates
EarliestOf(dates) == CHOOSE t \in Range(dates) : \A u \in Range(dates) : t <= u

LatestOf(dates) == CHOOSE t \in Range(dates) : \A u \in Range(dates) : u <= t

\* C17: in every complete history built (buildCompleteHistoryData,
\* mergeStreamingHistory) or updated (mergeData), dateRange.earliest and
\* dateRange.latest are the chronologically earliest and latest playedAt
\* over all listening events of all songs.
C17_DateRangeIsChronological ==
    (source \in {"builder", "streaming"} /\ AllEventDates(existingData.songs) # <<>>)
        => /\ existingData.metadata.earliest = <<EarliestOf(AllEventDates(existingData.songs))>>
           /\ existingData.metadata.latest = <<LatestOf(AllEventDates(existingData.songs))>>

\* a song of the aggregate that stands for plays with no artist
ArtistlessSong(song) ==
    IF source = "cleaned" THEN song.artist = UnknownArtist ELSE song.artists = <<>>

\* the songs of the aggregate that hold the artist-less plays of one name
ArtistlessSongs(name) ==
    {i \in 1..Len(existingData.songs) :
        /\ ArtistlessSong(existingData.songs[i])
        /\ Trim(ToLowerCase(existingData.songs[i].name)) = name}

\* C18: plays without artist are keyed under one sentinel that later merges
\* find again: when two mergeData calls each brought a play of the same song
\* name with no artist, the aggregate holds exactly one song for them.
C18_ArtistlessPlaysInOneSong ==
    source \in {"builder", "cleaned"} =>
        \A b1, b2 \in 1..Len(mergedPlays) :
            \A p1 \in Range(mergedPlays[b1]), p2 \in Range(mergedPlays[b2]) :
                (/\ b1 < b2
                 /\ p1.artists = <<>>
                 /\ p2.artists = <<>>
                 /\ Trim(ToLowerCase(p1.name)) = Trim(ToLowerCase(p2.name)))
                    => Cardinality(ArtistlessSongs(Trim(ToLowerCase(p1.name)))) = 1

(***************************************************************************)
(* Consolidation of an input that holds a negative count or duration       *)
(***************************************************************************)
\* (count, duration_ms) with a negative component
NegativeMagnitudes == { <<0 - 1, 5>>, <<2, 0 - 3>> }

\* arrays of at most n records, of any sign
RECURSIVE SignedArrays(_)
SignedArrays(n) ==
    IF n = 0 THEN { <<>> }
    ELSE LET shorter == SignedArrays(n - 1)
         IN  shorter \cup
             { Append(s, InputRecord(Len(s) + 1, pair, mag)) :
                 s \in {t \in shorter : Len(t) = n - 1},
                 pair \in { << <<"a">>, <<"x">> >>, << <<"a">>, <<"X">> >> },
                 mag \in Magnitudes \cup NegativeMagnitudes }

\* the input holds a record with negative count or negative duration_ms
HasNegative(songs) ==
    \E i \in 1..Len(songs) : songs[i].count < 0 \/ songs[i].duration_ms < 0

InitSigned ==
    /\ RulesIdle
    /\ HistoryIdle
    /\ FetchIdle
    /\ consolidator = "songs"
    /\ records \in {songs \in SignedArrays(MaxRecords) : HasNegative(songs)}
    /\ pos = 0
    /\ consolidatedMap = <<>>
    /\ returned = FALSE
    /\ output = <<>>

NextSigned == consolidateSongs \/ ReturnRanked

SpecSigned == InitSigned /\ [][NextSigned]_vars

\* C19: a consolidation call whose input holds a record with negative count
\* or negative duration_ms is rejected before any grouping: no record is
\* folded into the Map and no entity is returned.
C19_NegativeInputRejected ==
    HasNegative(records) => consolidatedMap = <<>> /\ output = <<>>

(***************************************************************************)
(* Extraction of the decision from the reply text                          *)
(***************************************************************************)
\* positions of the reply text where a well-formed JSON object of the
\* Decision shape starts
DecisionObjects(text) ==
    {i \in 1..(Len(text) - 2) :
        /\ text[i].t = "{"
        /\ text[i + 1].t = "members"
        /\ ValidFormat(text[i + 1].v)
        /\ text[i + 2].t = "}"}

ContainsDecision(reply) ==
    reply.kind = "response" /\ DecisionObjects(reply.text) # {}

\* the first of them
FirstDecision(reply) ==
    LET at == DecisionObjects(reply.text)
    IN  reply.text[(CHOOSE i \in at : \A j \in at : i <= j) + 1].v

\* C20: whenever the oracle's reply text contains a well-formed JSON object
\* of the Decision shape, the decision returned for the group is that first
\* object, whatever text (prose, braces, another object) stands before or
\* after it.
C20_FirstDecisionObjectReturned ==
    (pipeline = "agent" /\ phase = "done") =>
        \A g \in 1..Len(decisions) :
            ContainsDecision(replies[g][1]) =>
                /\ decisions[g].decision.shouldConsolidate
                      = FirstDecision(replies[g][1]).shouldConsolidate.v
                /\ decisions[g].decision.confidence
                      = FirstDecision(replies[g][1]).confidence.v
                /\ decisions[g].decision.canonicalName
                      = FirstDecision(replies[g][1]).canonicalName.v

(***************************************************************************)
(* Range of the oracle's confidence                                        *)
(***************************************************************************)
InitRange ==
    /\ FoldIdle
    /\ HistoryIdle
    /\ FetchIdle
    /\ output = <<>>
    /\ ruleFile = NoRuleFile
    /\ albums \in RangeInputs
    /\ runs = MaxRuns - 1
    /\ pipeline = "none"
    /\ phase = "idle"
    /\ memRules = <<>>
    /\ loadedCount = 0
    /\ potentialGroups = <<>>
    /\ cursor = 0
    /\ threshold = 0
    /\ autoRules = <<>>
    /\ newRules = <<>>
    /\ decisions = <<>>
    /\ batch = <<>>
    /\ replies = <<>>

NextRange ==
    \/ agentConsolidateAlbums
    \/ queryLLM

SpecRange == InitRange /\ [][NextRange]_vars

\* C21: every decision of a finished agent run has 0 <= confidence <= 1
\* (0..100 hundredths), and a reply whose confidence lies outside that range
\* creates no rule: the rules of the run are the auto rules alone.
C21_ConfidenceInUnitRange ==
    (pipeline = "agent" /\ phase = "done") =>
        \A g \in 1..Len(decisions) :
            /\ decisions[g].decision.confidence \in 0..100
            /\ (/\ replies[g][1].kind = "response"
                /\ ReplyMembers(replies[g][1]).confidence.v \notin 0..100)
                  => newRules = autoRules

(***************************************************************************)
(* Canonical name of a created rule                                        *)
(***************************************************************************)
\* the albums of the input a rule speaks about: the rule's artist, a name
\* among its variations
RuleGroup(rule) ==
    SelectSeq(albums, LAMBDA al :
        /\ ToLowerCase(al.artist) = ToLowerCase(rule.artistName)
        /\ ToLowerCase(al.name) \in Range(rule.variations))

\* the display names of the most-played members of a group
MostPlayedNames(group) ==
    {group[i].name : i \in {k \in 1..Len(group) :
                               \A j \in 1..Len(group) : group[j].count <= group[k].count}}

\* C22: the canonical name (baseAlbumName) of every rule a run creates, by
\* auto-merge, by the operator's approval or by the oracle's decision, is the
\* display name of the most-played member of the rule's group.
C22_CanonicalIsMostPlayed ==
    pipeline \in {"interactive", "agent"} =>
        \A i \in 1..Len(CreatedRules) :
            CreatedRules[i].baseAlbumName \in MostPlayedNames(RuleGroup(CreatedRules[i]))

(***************************************************************************)
(* Member count of the history-derived consolidation                       *)
(***************************************************************************)
\* C23: in the history-derived consolidation, consolidated_count of every
\* entity is the number of source records folded into it, which is the
\* length of its original ids list.
C23_HistoryMemberCount ==
    consolidator = "historySongs" =>
        \A i \in 1..Len(consolidatedMap) :
            /\ consolidatedMap[i].consolidated_count
                  = Cardinality({id \in 1..pos : i \in HoldersOf(id)})
            /\ consolidatedMap[i].consolidated_count = Len(consolidatedMap[i].original_ids)

(***************************************************************************)
(* CleanedFilesGenerator: albums with songs                                *)
(***************************************************************************)
\* artists.join(', ')
RECURSIVE JoinArtists(_)
JoinArtists(artists) ==
    IF artists = <<>> THEN <<>>
    ELSE IF Len(artists) = 1 THEN artists[1]
    ELSE artists[1] \o <<",", " ">> \o JoinArtists(Tail(artists))

AlbumSongKey(song) ==
    Trim(ToLowerCase(song.name)) \o Pipe \o ToLowerCase(JoinArtists(song.artists))

AlbumWithSongsKey(album) ==
    Trim(ToLowerCase(album.name)) \o Pipe
        \o Trim(ToLowerCase(FirstArtistOrUnknownArtist(album.artists)))

\* songMap.set(songKey, song) over existing.songs: a key set again keeps its
\* place in the Map and takes the later song
RECURSIVE SongMapOf(_, _)
SongMapOf(songMap, songs) ==
    IF songs = <<>> THEN songMap
    ELSE LET song == Head(songs)
             entry == [key |-> AlbumSongKey(song), song |-> song]
             at == MapIndex(songMap, entry.key)
         IN  SongMapOf(IF at # 0 THEN [songMap EXCEPT ![at] = entry]
                       ELSE Append(songMap, entry),
                       Tail(songs))

\* album.songs.forEach: a song of a key the Map holds is added onto it
RECURSIVE AddNewSongs(_, _)
AddNewSongs(songMap, songs) ==
    IF songs = <<>> THEN songMap
    ELSE LET song == Head(songs)
             at == MapIndex(songMap, AlbumSongKey(song))
         IN  AddNewSongs(
                IF at # 0
                THEN [songMap EXCEPT
                        ![at].song.play_count = @ + song.play_count,
                        ![at].song.total_listening_time_ms = @ + song.total_listening_time_ms]
                ELSE Append(songMap, [key |-> AlbumSongKey(song), song |-> song]),
                Tail(songs))

\* sort((a, b) => b.play_count - a.play_count)
SortSongsByPlayCount(songs) ==
    StableSort(songs, [i \in 1..Len(songs) |-> 0 - songs[i].play_count])

\* Array.from(songMap.values()).sort(...)
MergedSongs(existingSongs, newSongs) ==
    LET songMap == AddNewSongs(SongMapOf(<<>>, existingSongs), newSongs)
    IN  SortSongsByPlayCount([i \in 1..Len(songMap) |-> songMap[i].song])

AlbumWithSongsMerge(existing, album) ==
    [existing EXCEPT
        !.count = @ + album.count,
        !.total_duration_ms = @ + album.total_duration_ms,
        !.consolidated_count = @ + album.consolidated_count,
        !.original_albumIds = @ \o album.original_albumIds,
        !.songs = MergedSongs(@, album.songs)]

AlbumWithSongsNew(key, album) ==
    [key |-> key,
     name |-> album.name,
     artists |-> album.artists,
     count |-> album.count,
     total_duration_ms |-> album.total_duration_ms,
     consolidated_count |-> album.consolidated_count,
     original_albumIds |-> album.original_albumIds,
     songs |-> SortSongsByPlayCount(album.songs)]

\* existing merged with the later albums of its key, in their order
RECURSIVE AlbumWithSongsMergeAll(_, _)
AlbumWithSongsMergeAll(existing, later) ==
    IF later = <<>> THEN existing
    ELSE AlbumWithSongsMergeAll(AlbumWithSongsMerge(existing, Head(later)), Tail(later))

\* albums.forEach over consolidationMap: an entry per key in the order the
\* keys are first seen, holding the first album of the key merged with each
\* later one
AlbumWithSongsFold(list) ==
    LET keys == [i \in 1..Len(list) |-> AlbumWithSongsKey(list[i])]
        indices == [i \in 1..Len(list) |-> i]
        firsts == SelectSeq(indices, LAMBDA i : \A j \in 1..(i - 1) : keys[j] # keys[i])
        later(i) == SelectSeq(indices, LAMBDA j : j > i /\ keys[j] = keys[i])
    IN  [k \in 1..Len(firsts) |->
            AlbumWithSongsMergeAll(
                AlbumWithSongsNew(keys[firsts[k]], list[firsts[k]]),
                [m \in 1..Len(later(firsts[k])) |-> list[later(firsts[k])[m]]])]

\* consolidateAlbumsWithSongs of the generator: fold, then sort by count
historyConsolidateAlbumsWithSongs(list) ==
    SortByCountDesc(AlbumWithSongsFold(list))

\* "take top 100 before consolidation", "Top 100 albums with songs"
TopAlbums == 100

Slice(s, n) == SubSeq(s, 1, IF Len(s) < n THEN Len(s) ELSE n)

\* generateAlbumsWithSongs from the sort on: sort by count, slice(0, 100),
\* consolidate
generateAlbumsWithSongsData(albumsWithSongs) ==
    historyConsolidateAlbumsWithSongs(Slice(SortByCountDesc(albumsWithSongs), TopAlbums))

\* the albums-with-songs arrays: names of albums are three-digit numerals
Digits == <<"0", "1", "2", "3", "4", "5", "6", "7", "8", "9">>

Numeral(i) ==
    <<Digits[((i \div 100) % 10) + 1], Digits[((i \div 10) % 10) + 1], Digits[(i % 10) + 1]>>

\* a song of generateAlbumsWithSongs: a track of one millisecond
AlbumSong(id, name, plays) ==
    [songId |-> id, name |-> name, artists |-> <<<<"a">>>>,
     play_count |-> plays, total_listening_time_ms |-> plays]

\* an album of generateAlbumsWithSongs: count and total_duration_ms are the
\* sums over its songs, consolidated_count is count, original_albumIds [id]
AlbumOfSongs(id, name, songs) ==
    LET plays == SumSeq([i \in 1..Len(songs) |-> songs[i].play_count])
    IN  [id |-> id, name |-> name, artists |-> <<<<"a">>>>,
         count |-> plays,
         total_duration_ms |-> SumSeq([i \in 1..Len(songs) |-> songs[i].total_listening_time_ms]),
         consolidated_count |-> plays,
         original_albumIds |-> <<id>>,
         songs |-> songs]

PlainAlbum(i, plays) == AlbumOfSongs(i, Numeral(i), <<AlbumSong(i, <<"t">>, plays)>>)

\* the two spellings of one album key
Spelling(i, plays) ==
    AlbumOfSongs(i, IF i % 2 = 1 THEN <<"x">> ELSE <<"X">>, <<AlbumSong(i, <<"t">>, plays)>>)

\* an album holding two tracks of the same name and artists
TwinTracks(i, name) ==
    AlbumOfSongs(i, name, <<AlbumSong(i, <<"t">>, 2), AlbumSong(i + 500, <<"t">>, 1)>>)

AlbumPatterns == {"distinct", "splitFirst", "splitLast", "twinFirst", "twinSecond", "triple"}

\* album i of n in the order the generator built them
PatternAlbum(pattern, i, n) ==
    CASE pattern = "splitFirst" /\ i <= 2 -> Spelling(i, 5)
      [] pattern = "splitLast" /\ i > n - 2 -> Spelling(i, 2)
      [] pattern = "twinFirst" /\ i = 1 -> TwinTracks(i, <<"x">>)
      [] pattern = "twinFirst" /\ i = 2 -> Spelling(i, 3)
      [] pattern = "twinSecond" /\ i = 1 -> Spelling(i, 3)
      [] pattern = "twinSecond" /\ i = 2 -> TwinTracks(i, <<"X">>)
      [] pattern = "triple" /\ i <= 3 -> Spelling(i, 5)
      [] OTHER -> PlainAlbum(i, 3)

AlbumCounts == 1..Margin \cup (TopAlbums - Margin)..(TopAlbums + Margin)

AlbumsWithSongsInputs ==
    { [i \in 1..n |-> PatternAlbum(pattern, i, n)] : pattern \in AlbumPatterns, n \in AlbumCounts }

InitAlbumSongs ==
    /\ RulesIdle
    /\ HistoryIdle
    /\ FetchIdle
    /\ consolidator = "historyAlbumsWithSongs"
    /\ records \in AlbumsWithSongsInputs
    /\ pos = 0
    /\ consolidatedMap = <<>>
    /\ returned = FALSE
    /\ output = <<>>

\* generateAlbumsWithSongs: sort, slice(0, 100), consolidateAlbumsWithSongs
generateAlbumsWithSongs ==
    /\ consolidator = "historyAlbumsWithSongs"
    /\ ~returned
    /\ pos = 0
    /\ consolidatedMap' = generateAlbumsWithSongsData(records)
    /\ pos' = Len(records)
    /\ UNCHANGED <<consolidator, records, returned, output, ruleVars, histVars, fetchVars>>

\* saveCleanedFiles: albums: albumsWithSongs.slice(0, 100)
saveCleanedFiles ==
    /\ consolidator = "historyAlbumsWithSongs"
    /\ ~returned
    /\ pos = Len(records)
    /\ output' = Slice(consolidatedMap, TopAlbums)
    /\ returned' = TRUE
    /\ UNCHANGED <<consolidator, records, pos, consolidatedMap, ruleVars, histVars, fetchVars>>

NextAlbumSongs ==
    \/ generateAlbumsWithSongs
    \/ saveCleanedFiles

SpecAlbumSongs == InitAlbumSongs /\ [][NextAlbumSongs]_vars

\* the consolidation of every album the generator built
AllConsolidated == historyConsolidateAlbumsWithSongs(records)

OutputKeys == {output[i].key : i \in 1..Len(output)}

\* C24: the albums-with-songs file holds the top 100 of the consolidated
\* albums: min(100, number of distinct album keys) entries, each with a play
\* count at least that of every consolidated album left out of the file
C24_TopHundredAfterMerge ==
    (consolidator = "historyAlbumsWithSongs" /\ returned) =>
        LET all == AllConsolidated
            kept == OutputKeys
            leftOut == {all[j].count : j \in {k \in 1..Len(all) : all[k].key \notin kept}}
            counts == {output[i].count : i \in 1..Len(output)}
        IN  /\ Len(output) = (IF Len(all) < TopAlbums THEN Len(all) ELSE TopAlbums)
            /\ \A c \in counts, d \in leftOut : c >= d

SongPlays(album) == SumSeq([i \in 1..Len(album.songs) |-> album.songs[i].play_count])

SongTime(album) ==
    SumSeq([i \in 1..Len(album.songs) |-> album.songs[i].total_listening_time_ms])

\* C26: every album returned by consolidateAlbumsWithSongs has a play count
\* equal to the sum of its songs' play_count and a listening time equal to
\* the sum of its songs' total_listening_time_ms
C26_AlbumTotalsAreSongSums ==
    (consolidator = "historyAlbumsWithSongs" /\ pos = Len(records)) =>
        \A i \in 1..Len(consolidatedMap) :
            /\ consolidatedMap[i].count = SongPlays(consolidatedMap[i])
            /\ consolidatedMap[i].total_duration_ms = SongTime(consolidatedMap[i])

(***************************************************************************)
(* fetchAllAlbums / fetchAllSongs: the paged download of the top lists     *)
(***************************************************************************)
\* TOTAL_CALLS and BATCH_SIZE of the environment
TotalCalls == 3

BatchSize == 2

\* what makeRequest can come back with for the page at an offset: a rejected
\* promise (network error, body that is not JSON), or a status and a body
ApiResponse(rejected, statusCode, isArray, data) ==
    [rejected |-> rejected, statusCode |-> statusCode, isArray |-> isArray, data |-> data]

Answers200(offset) ==
    { ApiResponse(FALSE, 200, TRUE, [j \in 1..k |-> offset + j]) : k \in 0..BatchSize }
    \cup { ApiResponse(FALSE, 200, FALSE, <<>>) }

ApiAnswers(offset) ==
    Answers200(offset)
    \cup { ApiResponse(FALSE, 500, FALSE, <<>>), ApiResponse(TRUE, 0, FALSE, <<>>) }

\* albums.map(...) / songs.map(...): the cleaned record of an item
CleanedRecord(item) ==
    IF fetcher = "albums" THEN [albumId |-> item, count |-> 1]
    ELSE [songId |-> item, count |-> 1]

\* errors.push of the else branch and of the catch block
HttpErrorInfo(response) ==
    [call |-> callIndex + 1, offset |-> callIndex * BatchSize,
     statusCode |-> response.statusCode, error |-> "HTTP status"]

CaughtErrorInfo ==
    [call |-> callIndex + 1, offset |-> callIndex * BatchSize, error |-> "message"]

\* reading .length of a body that is null throws inside the try block
Throws(response) == response.rejected \/ (response.statusCode = 200 /\ ~response.isArray)

InitFetch ==
    /\ FoldIdle
    /\ output = <<>>
    /\ RulesIdle
    /\ HistoryIdle
    /\ fetcher \in {"albums", "songs"}
    /\ made = <<>>
    /\ callIndex = 0
    /\ allAlbums = <<>>
    /\ errors = <<>>
    /\ stopped = FALSE
    /\ fetchResults = <<>>

\* one turn of for (let i = 0; i < TOTAL_CALLS; i++)
fetchCall ==
    /\ fetcher # "none"
    /\ ~stopped
    /\ callIndex < TotalCalls
    /\ \E response \in ApiAnswers(callIndex * BatchSize) :
          /\ made' = Append(made, response)
          /\ IF Throws(response)
             THEN /\ errors' = Append(errors, CaughtErrorInfo)
                  /\ callIndex' = callIndex + 1
                  /\ UNCHANGED <<allAlbums, stopped>>
             ELSE IF response.statusCode # 200
             THEN /\ errors' = Append(errors, HttpErrorInfo(response))
                  /\ callIndex' = callIndex + 1
                  /\ UNCHANGED <<allAlbums, stopped>>
             ELSE IF Len(response.data) > 0
             THEN /\ allAlbums' = allAlbums
                        \o [j \in 1..Len(response.data) |-> CleanedRecord(response.data[j])]
                  /\ callIndex' = callIndex + 1
                  /\ UNCHANGED <<errors, stopped>>
             ELSE /\ stopped' = TRUE
                  /\ UNCHANGED <<allAlbums, errors, callIndex>>
    /\ UNCHANGED <<fetcher, fetchResults, foldVars, output, ruleVars, histVars>>

\* the results object after the loop
FetchResultsOf ==
    [metadata |-> [totalCalls |-> TotalCalls,
                   batchSize |-> BatchSize,
                   totalAlbums |-> Len(allAlbums),
                   successfulCalls |-> TotalCalls - Len(errors),
                   failedCalls |-> Len(errors)],
     albums |-> allAlbums,
     errors |-> errors]

fetchSave ==
    /\ fetcher # "none"
    /\ stopped \/ callIndex = TotalCalls
    /\ fetchResults = <<>>
    /\ fetchResults' = FetchResultsOf
    /\ UNCHANGED <<fetcher, made, callIndex, allAlbums, errors, stopped,
                   foldVars, output, ruleVars, histVars>>

NextFetch ==
    \/ fetchCall
    \/ fetchSave

SpecFetch == InitFetch /\ [][NextFetch]_vars

\* the requests made that came back with HTTP 200
Calls200 == {k \in 1..Len(made) : ~made[k].rejected /\ made[k].statusCode = 200}

\* the items of every page received, in the order of the requests
ItemsReceived ==
    Flatten([k \in 1..Len(made) |->
        IF ~made[k].rejected /\ made[k].statusCode = 200 /\ made[k].isArray
        THEN made[k].data ELSE <<>>])

\* the loop was left before TOTAL_CALLS requests only on an empty page
LeftOnEmptyPageOnly ==
    Len(made) < TotalCalls =>
        /\ made # <<>>
        /\ made[Len(made)].statusCode = 200
        /\ made[Len(made)].isArray
        /\ made[Len(made)].data = <<>>

\* C25: in the saved result a failed page has neither ended the loop nor
\* dropped collected records, successfulCalls is the number of requests
\* answered with HTTP 200, and successfulCalls + failedCalls is the number of
\* requests made, also when an empty page ended the loop early
C25_CallCountsMatchRequests ==
    fetchResults # <<>> =>
        /\ LeftOnEmptyPageOnly
        /\ Len(fetchResults.albums) = Len(ItemsReceived)
        /\ fetchResults.metadata.successfulCalls = Cardinality(Calls200)
        /\ fetchResults.metadata.successfulCalls + fetchResults.metadata.failedCalls
              = Len(made)

\* the albums of the file that a rule names: its artist, a name among its
\* variations
RuleMembers(rule) ==
    {k \in 1..Len(albums) :
        /\ ToLowerCase(albums[k].artist) = ToLowerCase(rule.artistName)
        /\ ToLowerCase(albums[k].name) \in Range(rule.variations)}

\* the output entity into which the album of an id was folded
EntityOf(id) == {e \in 1..Len(output) : id \in Range(output[e].original_ids)}

\* C27: when the interactive consolidation has finished, any two albums of
\* the file that one rule of the store names by its variations lie in the
\* same output entity
C27_RuleVariationsShareEntity ==
    (pipeline = "interactive" /\ phase = "done") =>
        \A r \in 1..Len(memRules) :
            \A k1, k2 \in RuleMembers(memRules[r]) :
                EntityOf(albums[k1].id) = EntityOf(albums[k2].id)

\* C28: in the history of the builder, as built and after every mergeData,
\* metadata.totalSongs is the number of songs, metadata.totalListeningEvents
\* the sum of their playCount and metadata.totalListeningTime the sum of
\* their totalListeningTime
C28_MetadataTotalsMatchSongs ==
    source = "builder" =>
        LET songs == existingData.songs
        IN  /\ existingData.metadata.totalSongs = Len(songs)
            /\ existingData.metadata.totalListeningEvents
                  = SumSeq([k \in 1..Len(songs) |-> songs[k].playCount])
            /\ existingData.metadata.totalListeningTime
                  = SumSeq([k \in 1..Len(songs) |-> songs[k].totalListeningTime])

\* C29: every song of a history built by the history builder or by the
\* streaming-history merger, and then updated by mergeData, has a playCount
\* equal to the number of its listeningEvents and a totalListeningTime equal
\* to the sum of their msPlayed
C29_SongTotalsMatchEvents ==
    source \in {"builder", "streaming"} =>
        \A k \in 1..Len(existingData.songs) :
            LET song == existingData.songs[k]
            IN  /\ song.playCount = Len(song.listeningEvents)
                /\ song.totalListeningTime
                      = SumSeq([e \in 1..Len(song.listeningEvents) |->
                                    song.listeningEvents[e].msPlayed])

\* C30: a mergeData call on a history of the builder whose date range is set
\* leaves dateRange.earliest no later and dateRange.latest no earlier than
\* they were
C30_DateRangeNeverNarrows ==
    [][(source = "builder" /\ merges' = merges + 1
            /\ existingData.metadata.earliest # <<>>
            /\ existingData.metadata.latest # <<>>)
          => /\ existingData'.metadata.earliest # <<>>
             /\ existingData'.metadata.latest # <<>>
             /\ existingData'.metadata.earliest[1] <= existingData.metadata.earliest[1]
             /\ existingData'.metadata.latest[1] >= existingData.metadata.latest[1]]_vars

====
